---- MODULE Spec2Model ----
(***************************************************************************)
(* Model of the linked list visualizer's memory engine                     *)
(* (src/src/lib/memoryModel.js) driven by the step records of              *)
(* src/src/lib/parser.js.                                                  *)
(*                                                                         *)
(* JavaScript objects are modelled with their identity: `mem` is the store *)
(* of every object allocated so far, a reference is an index into it, and  *)
(* a property write changes the object behind the reference.  A plain      *)
(* object `{}` keeps its own properties in insertion order and inherits    *)
(* the properties of Object.prototype, as in the language.                 *)
(***************************************************************************)
EXTENDS Integers, Sequences, FiniteSets, TLC

\* ------------------------------------------------------------------ bounds
\* Longest step list that is replayed.
MaxSteps == 3
\* How far below 0 and past the end of the list a replay index is tried.
MaxSlack == 1

\* ------------------------------------------------------------ step records
CREATE_NODE == "CREATE_NODE"
SET_NEXT == "SET_NEXT"
SET_NULL == "SET_NULL"
ASSIGN_VAR == "ASSIGN_VAR"
COMMENT == "COMMENT"

STEP_TYPES == {CREATE_NODE, SET_NEXT, SET_NULL, ASSIGN_VAR, COMMENT}

\* Identifiers the recognizer accepts are \w+ words; two ordinary names and
\* one name that is also a property of Object.prototype.
VarNames == {"a", "b", "__proto__"}

\* Integer payloads of `new Node(<int>)`.
NodeValues == {1, 2}

\* The step records applyStep reads (lineIndex and description are not read
\* by the memory engine and are left out of these records).
CreateNodeStep(v, n) == [type |-> CREATE_NODE, varName |-> v, value |-> n]
SetNextStep(x, y) == [type |-> SET_NEXT, varName |-> x, targetVar |-> y]
SetNullStep(x) == [type |-> SET_NULL, varName |-> x]
AssignVarStep(x, y) == [type |-> ASSIGN_VAR, varName |-> x, sourceVar |-> y]
CommentStep == [type |-> COMMENT]

\* ------------------------------------------------------- JavaScript values
\* null and undefined; an address is a string "0x...", never one of these.
NULL == "null"
UNDEFINED == "undefined"

\* The object Object.prototype, named by what String() makes of it when it is
\* used as a property key.
OBJECT_PROTOTYPE == "[object Object]"

\* Names every plain object inherits from Object.prototype and that occur
\* among VarNames.  __proto__ is an accessor: reading it yields
\* Object.prototype.  (constructor, toString, valueOf, hasOwnProperty, ... are
\* inherited too and read as functions; an assignment to one of those makes
\* an own property.)
InheritedKeys == {"__proto__"}

InheritedValue(key) == OBJECT_PROTOTYPE

\* Truthiness of a value in `x && ...`.
Truthy(v) == v \notin {NULL, UNDEFINED, ""}

\* `x ?? y`
Nullish(v, dflt) == IF v \in {NULL, UNDEFINED} THEN dflt ELSE v

\* -------------------------------------------------- plain object properties
\* The own properties of a plain object: a sequence of [k, v] in the order
\* they are enumerated in.
OwnIndex(props, key) ==
    IF \E i \in 1..Len(props) : props[i].k = key
    THEN CHOOSE i \in 1..Len(props) : props[i].k = key
    ELSE 0

HasOwn(props, key) == OwnIndex(props, key) # 0

\* obj[key] for a string-valued object: own property, else the inherited one,
\* else undefined.
GetProp(props, key) ==
    IF HasOwn(props, key) THEN props[OwnIndex(props, key)].v
    ELSE IF key \in InheritedKeys THEN InheritedValue(key)
    ELSE UNDEFINED

\* Whether obj[key] is truthy for an object whose own values are objects.
HasTruthyProp(props, key) == HasOwn(props, key) \/ key \in InheritedKeys

\* The element of a set of one element.  A recursive operator below takes
\* the value it recurs on through a variable bound over such a set, so that
\* the value is computed once, before the step that uses it.
The(S) == CHOOSE x \in S : TRUE

\* Property keys that are array indexes ("0", "1", "2", ...); of those only
\* single digits occur among the names tried.
DecDigits == <<"0", "1", "2", "3", "4", "5", "6", "7", "8", "9">>

IsArrayIndex(key) == \E d \in 1..Len(DecDigits) : DecDigits[d] = key

ArrayIndex(key) == (CHOOSE d \in 1..Len(DecDigits) : DecDigits[d] = key) - 1

\* Where a new own key comes in the order the properties are enumerated in
\* (spread, Object.keys, Object.values, Object.entries): array indexes come
\* first, in ascending numeric order, then every other key in the order of
\* its creation.
InsertProp(props, key, val) ==
    IF IsArrayIndex(key)
    THEN LET before == Cardinality({i \in 1..Len(props) :
                            /\ IsArrayIndex(props[i].k)
                            /\ ArrayIndex(props[i].k) < ArrayIndex(key)})
         IN SubSeq(props, 1, before) \o <<[k |-> key, v |-> val]>>
                \o SubSeq(props, before + 1, Len(props))
    ELSE Append(props, [k |-> key, v |-> val])

\* obj[key] = val.  The inherited accessor __proto__ makes no own property:
\* its setter ignores a string, and given null or an object it changes the
\* prototype of obj alone, which no later read in applyStep goes through
\* (each call reads from a new clone).  An own key is overwritten in place,
\* any other key is added.
SetProp(props, key, val) ==
    IF key = "__proto__" /\ ~HasOwn(props, key) THEN props
    ELSE IF HasOwn(props, key)
         THEN [props EXCEPT ![OwnIndex(props, key)].v = val]
         ELSE InsertProp(props, key, val)

\* ------------------------------------------------------------ object store
\* Allocation of a new object: the store grows by one, the reference is its
\* index.
Alloc(m, obj) == [mem |-> Append(m, obj), ref |-> Len(m) + 1]

\* -------------------------------------------------------------- addresses
AddrBase == 256

HexDigits == <<"0", "1", "2", "3", "4", "5", "6", "7",
               "8", "9", "A", "B", "C", "D", "E", "F">>

RECURSIVE ToHexUpper(_)
ToHexUpper(n) ==
    IF n < 16 THEN HexDigits[n + 1]
    ELSE ToHexUpper(n \div 16) \o HexDigits[(n % 16) + 1]

makeAddress(counter) == "0x" \o ToHexUpper(AddrBase + counter)

\* --------------------------------------------------------------- snapshots
\* Variant: the empty snapshot is one shared object, made on the first call
\* and handed out again by every later one.
initialStateShared(m) ==
    IF Len(m) >= 4 THEN [mem |-> m, ref |-> 4]
    ELSE LET st == Alloc(m, [props |-> <<>>])
             hp == Alloc(st.mem, [props |-> <<>>])
             am == Alloc(hp.mem, [props |-> <<>>])
         IN Alloc(am.mem, [stack |-> st.ref, heap |-> hp.ref, addressMap |-> am.ref,
                           nextAddr |-> 0, lastModified |-> NULL])

\* initialState(): four fresh objects, the three maps and the state.
initialState(m) ==
    LET st == Alloc(m, [props |-> <<>>])
        hp == Alloc(st.mem, [props |-> <<>>])
        am == Alloc(hp.mem, [props |-> <<>>])
    IN Alloc(am.mem, [stack |-> st.ref, heap |-> hp.ref, addressMap |-> am.ref,
                      nextAddr |-> 0, lastModified |-> NULL])

\* Variant: `stack: state.stack`, the stack object is shared, not copied.
CloneStateSharesStack(m, state) ==
    LET old == m[state]
        oh == m[old.heap].props
        base == Len(m)
        nodes == [i \in 1..Len(oh) |-> m[oh[i].v]]
        hp == Alloc(m \o nodes,
                    [props |-> [i \in 1..Len(oh) |-> [k |-> oh[i].k, v |-> base + i]]])
        am == Alloc(hp.mem, [props |-> m[old.addressMap].props])
    IN Alloc(am.mem, [stack |-> old.stack, heap |-> hp.ref, addressMap |-> am.ref,
                      nextAddr |-> old.nextAddr, lastModified |-> NULL])

\* Variant: `nextAddr: 0`, the counter is not carried over into the clone.
CloneStateResetsCounter(m, state) ==
    LET old == m[state]
        st == Alloc(m, [props |-> m[old.stack].props])
        oh == m[old.heap].props
        base == Len(st.mem)
        nodes == [i \in 1..Len(oh) |-> m[oh[i].v]]
        hp == Alloc(st.mem \o nodes,
                    [props |-> [i \in 1..Len(oh) |-> [k |-> oh[i].k, v |-> base + i]]])
        am == Alloc(hp.mem, [props |-> m[old.addressMap].props])
    IN Alloc(am.mem, [stack |-> st.ref, heap |-> hp.ref, addressMap |-> am.ref,
                      nextAddr |-> 0, lastModified |-> NULL])

\* The deep clone at the head of applyStep: a new stack object with the own
\* properties of state.stack, a new heap object whose entries are new copies
\* of the nodes, a new addressMap, and the new state object s.
CloneState(m, state) ==
    LET old == m[state]
        st == Alloc(m, [props |-> m[old.stack].props])
        oh == m[old.heap].props
        base == Len(st.mem)
        nodes == [i \in 1..Len(oh) |-> m[oh[i].v]]
        hp == Alloc(st.mem \o nodes,
                    [props |-> [i \in 1..Len(oh) |-> [k |-> oh[i].k, v |-> base + i]]])
        am == Alloc(hp.mem, [props |-> m[old.addressMap].props])
    IN Alloc(am.mem, [stack |-> st.ref, heap |-> hp.ref, addressMap |-> am.ref,
                      nextAddr |-> old.nextAddr, lastModified |-> NULL])

\* Writes through a reference.
WriteProp(m, obj, key, val) ==
    [m EXCEPT ![obj].props = SetProp(m[obj].props, key, val)]

WriteField(m, obj, field, val) == [m EXCEPT ![obj][field] = val]

\* Variant: makeAddress(s.nextAddr) without the post-increment.
applyCreateNodeNoIncrement(m, s, step) ==
    LET addr == makeAddress(m[s].nextAddr)
        node == Alloc(m, [data |-> step.value, next |-> NULL, id |-> addr])
        m2 == WriteProp(node.mem, m[s].heap, addr, node.ref)
        m3 == WriteProp(m2, m[s].stack, step.varName, addr)
        m4 == WriteProp(m3, m[s].addressMap, step.varName, addr)
    IN WriteField(m4, s, "lastModified", addr)

\* case CREATE_NODE
applyCreateNode(m, s, step) ==
    LET addr == makeAddress(m[s].nextAddr)
        m1 == WriteField(m, s, "nextAddr", m[s].nextAddr + 1)
        node == Alloc(m1, [data |-> step.value, next |-> NULL, id |-> addr])
        m2 == WriteProp(node.mem, m[s].heap, addr, node.ref)
        m3 == WriteProp(m2, m[s].stack, step.varName, addr)
        m4 == WriteProp(m3, m[s].addressMap, step.varName, addr)
    IN WriteField(m4, s, "lastModified", addr)

\* { ...s.heap[addr], next: val } stored back under addr.
ReplaceNext(m, s, addr, val) ==
    LET hprops == m[m[s].heap].props
        old == m[hprops[OwnIndex(hprops, addr)].v]
        node == Alloc(m, [data |-> old.data, next |-> val, id |-> old.id])
        m1 == WriteProp(node.mem, m[s].heap, addr, node.ref)
    IN WriteField(m1, s, "lastModified", addr)

\* case SET_NEXT
applySetNext(m, s, step) ==
    LET fromAddr == GetProp(m[m[s].stack].props, step.varName)
        toAddr == GetProp(m[m[s].stack].props, step.targetVar)
    IN IF Truthy(fromAddr) /\ HasTruthyProp(m[m[s].heap].props, fromAddr)
       THEN ReplaceNext(m, s, fromAddr, Nullish(toAddr, NULL))
       ELSE m

\* Variant: `delete s.heap[addr]` where the source clears the next field.
applySetNullDeletes(m, s, step) ==
    LET addr == GetProp(m[m[s].stack].props, step.varName)
        hprops == m[m[s].heap].props
        kept == {i \in 1..Len(hprops) : hprops[i].k # addr}
        Pick(n) == CHOOSE i \in kept : Cardinality({j \in kept : j < i}) = n - 1
    IN IF Truthy(addr) /\ HasTruthyProp(hprops, addr)
       THEN WriteField([m EXCEPT ![m[s].heap].props =
                            [n \in 1..Cardinality(kept) |-> hprops[Pick(n)]]],
                       s, "lastModified", addr)
       ELSE m

\* Variant: no `addr && s.heap[addr]` test, the node is stored under
\* whatever key the stack lookup gave.
applySetNullUnguarded(m, s, step) ==
    LET addr == GetProp(m[m[s].stack].props, step.varName)
        hprops == m[m[s].heap].props
    IN IF HasOwn(hprops, addr)
       THEN ReplaceNext(m, s, addr, NULL)
       ELSE LET node == Alloc(m, [data |-> UNDEFINED, next |-> NULL, id |-> UNDEFINED])
                m1 == WriteProp(node.mem, m[s].heap, addr, node.ref)
            IN WriteField(m1, s, "lastModified", addr)

\* Variant: the next field is cleared but `s.lastModified = addr` is missing.
applySetNullNoHighlight(m, s, step) ==
    LET addr == GetProp(m[m[s].stack].props, step.varName)
    IN IF Truthy(addr) /\ HasTruthyProp(m[m[s].heap].props, addr)
       THEN WriteField(ReplaceNext(m, s, addr, NULL), s, "lastModified", NULL)
       ELSE m

\* case SET_NULL
applySetNull(m, s, step) ==
    LET addr == GetProp(m[m[s].stack].props, step.varName)
    IN IF Truthy(addr) /\ HasTruthyProp(m[m[s].heap].props, addr)
       THEN ReplaceNext(m, s, addr, NULL)
       ELSE m

\* case ASSIGN_VAR
applyAssignVar(m, s, step) ==
    LET srcAddr == GetProp(m[m[s].stack].props, step.sourceVar)
        m1 == WriteProp(m, m[s].stack, step.varName, Nullish(srcAddr, NULL))
    IN WriteField(m1, s, "lastModified", Nullish(srcAddr, NULL))

\* applyStep(state, step): the clone, then the switch on step.type.  The
\* result is the store after the call and the reference that is returned.
applyStep(m, state, step) ==
    The({[mem |-> CASE step.type = CREATE_NODE -> applyCreateNode(s.mem, s.ref, step)
                    [] step.type = SET_NEXT -> applySetNext(s.mem, s.ref, step)
                    [] step.type = SET_NULL -> applySetNull(s.mem, s.ref, step)
                    [] step.type = ASSIGN_VAR -> applyAssignVar(s.mem, s.ref, step)
                    [] OTHER -> s.mem,
          ref |-> s.ref] : s \in {CloneState(m, state)}})

\* Variant: `i < stepIndex`, the loop stops one step early.
RECURSIVE ReplayLoopStopsEarly(_, _, _, _, _)
ReplayLoopStopsEarly(m, state, steps, stepIndex, i) ==
    IF i < stepIndex /\ i < Len(steps)
    THEN LET r == applyStep(m, state, steps[i + 1])
         IN ReplayLoopStopsEarly(r.mem, r.ref, steps, stepIndex, i + 1)
    ELSE [mem |-> m, ref |-> state]

\* Variant: the loop runs to the end of the list whatever the index.
RECURSIVE ReplayLoopIgnoresIndex(_, _, _, _, _)
ReplayLoopIgnoresIndex(m, state, steps, stepIndex, i) ==
    IF i < Len(steps)
    THEN LET r == applyStep(m, state, steps[i + 1])
         IN ReplayLoopIgnoresIndex(r.mem, r.ref, steps, stepIndex, i + 1)
    ELSE [mem |-> m, ref |-> state]

\* Variant: no `i < steps.length` test; past the end of the list the loop
\* applies a step that has no type.
RECURSIVE ReplayLoopNoLengthTest(_, _, _, _, _)
ReplayLoopNoLengthTest(m, state, steps, stepIndex, i) ==
    IF i <= stepIndex
    THEN The({ReplayLoopNoLengthTest(r.mem, r.ref, steps, stepIndex, i + 1) :
                  r \in {applyStep(m, state,
                                   IF i < Len(steps) THEN steps[i + 1]
                                   ELSE [type |-> UNDEFINED])}})
    ELSE [mem |-> m, ref |-> state]

\* replaySteps(steps, stepIndex): the for loop, i counted from 0 as in the
\* source (steps[i] is the TLA+ element i + 1).  The result r of an
\* iteration is taken through a bound variable, so that it is computed
\* before the next iteration starts.
RECURSIVE ReplayLoop(_, _, _, _, _)
ReplayLoop(m, state, steps, stepIndex, i) ==
    IF i <= stepIndex /\ i < Len(steps)
    THEN The({ReplayLoop(r.mem, r.ref, steps, stepIndex, i + 1) :
                  r \in {applyStep(m, state, steps[i + 1])}})
    ELSE [mem |-> m, ref |-> state]

replaySteps(m, steps, stepIndex) ==
    LET init == initialState(m)
    IN ReplayLoop(init.mem, init.ref, steps, stepIndex, 0)

\* ------------------------------------------------------- reading snapshots
\* What a reader of the snapshot behind `state` sees: each map as its
\* entries in enumeration order, the heap with the fields of its nodes.
StackOf(m, state) == m[m[state].stack].props

HeapOf(m, state) ==
    LET hp == m[m[state].heap].props
    IN [i \in 1..Len(hp) |-> [k |-> hp[i].k, v |-> m[hp[i].v]]]

AddressMapOf(m, state) == m[m[state].addressMap].props

View(m, state) ==
    [stack |-> StackOf(m, state),
     heap |-> HeapOf(m, state),
     addressMap |-> AddressMapOf(m, state),
     nextAddr |-> m[state].nextAddr,
     lastModified |-> m[state].lastModified]

\* The objects a snapshot is made of: the state, its three maps, its nodes.
ObjectsOf(m, state) ==
    {state, m[state].stack, m[state].heap, m[state].addressMap}
        \cup {m[m[state].heap].props[i].v : i \in 1..Len(m[m[state].heap].props)}

HeapKeys(m, state) == {HeapOf(m, state)[i].k : i \in 1..Len(HeapOf(m, state))}

\* ----------------------------------------------------------- state machine
\* A replay in progress: `steps` is the part of the step list consumed so
\* far, `cur` the loop's variable `state`, `mem` the object store, `trail`
\* every snapshot returned so far with what it read as when it was returned.
\* `frame` holds the locals of a call of one of the other functions
\* (buildChain, findHeadAddress, getVarsAtAddress, parseCode) while it runs;
\* no call is in progress during a replay.  `app` holds the state of the App
\* component once it is mounted.
VARIABLES mem, cur, steps, trail, frame, app

vars == <<mem, cur, steps, trail, frame, app>>

NoCall == [pc |-> "idle"]

NotMounted == [pc |-> "unmounted"]

\* `let state = initialState();` before the loop's first iteration.
ReplayStart ==
    LET r == initialState(<<>>)
    IN /\ mem = r.mem
       /\ cur = r.ref
       /\ steps = <<>>
       /\ trail = <<[ref |-> r.ref, view |-> View(r.mem, r.ref)]>>

Init ==
    /\ ReplayStart
    /\ app = NotMounted
    /\ frame = NoCall

\* The body of the loop, state = applyStep(state, steps[i]).
Iterate(step) ==
    /\ LET r == applyStep(mem, cur, step)
       IN /\ mem' = r.mem
          /\ cur' = r.ref
          /\ trail' = Append(trail, [ref |-> r.ref, view |-> View(r.mem, r.ref)])
    /\ steps' = Append(steps, step)
    /\ UNCHANGED <<frame, app>>

\* One iteration of the loop for each type steps[i] can have; the list has
\* a step i as long as it is not at its longest.
StepCreateNode ==
    \E v \in VarNames, n \in NodeValues :
        /\ Len(steps) < MaxSteps
        /\ Iterate(CreateNodeStep(v, n))

StepSetNext ==
    \E x \in VarNames, y \in VarNames :
        /\ Len(steps) < MaxSteps
        /\ Iterate(SetNextStep(x, y))

StepSetNull ==
    \E x \in VarNames :
        /\ Len(steps) < MaxSteps
        /\ Iterate(SetNullStep(x))

StepAssignVar ==
    \E x \in VarNames, y \in VarNames :
        /\ Len(steps) < MaxSteps
        /\ Iterate(AssignVarStep(x, y))

StepOther ==
    /\ Len(steps) < MaxSteps
    /\ Iterate(CommentStep)

Next ==
    \/ StepCreateNode
    \/ StepSetNext
    \/ StepSetNull
    \/ StepAssignVar
    \/ StepOther

Spec == Init /\ [][Next]_vars

\* ------------------------------------------------------- reading a replay
EmptyView ==
    [stack |-> <<>>, heap |-> <<>>, addressMap |-> <<>>,
     nextAddr |-> 0, lastModified |-> NULL]

\* What a call replaySteps(ss, k) returns.
ReplayView(ss, k) ==
    The({View(r.mem, r.ref) : r \in {replaySteps(<<>>, ss, k)}})

\* The left fold of applyStep over a list, from a given snapshot.
RECURSIVE FoldApply(_, _, _)
FoldApply(m, state, ss) ==
    IF ss = <<>> THEN [mem |-> m, ref |-> state]
    ELSE LET r == applyStep(m, state, Head(ss))
         IN FoldApply(r.mem, r.ref, Tail(ss))

FoldView(ss) ==
    LET init == initialState(<<>>)
        r == FoldApply(init.mem, init.ref, ss)
    IN View(r.mem, r.ref)

\* The replay indexes tried: below 0, inside the list, past its end.
ReplayIndexes == (0 - MaxSlack)..(Len(steps) + MaxSlack)

CreateSteps == {i \in 1..Len(steps) : steps[i].type = CREATE_NODE}

\* How many CreateNode steps come before step i.
CreateRank(i) == Cardinality({j \in CreateSteps : j < i})

\* -------------------------------------------------------------------- C1
\* C1: for every index k inside the list, replaySteps(steps, k) is the fold
\* of applyStep over steps[0..k] from the empty snapshot, it is applyStep of
\* replaySteps(steps, k-1) and steps[k], in every field, and it is the
\* snapshot the loop held after its iteration k.
C1_ReplayIsFold ==
    \A k \in 0..(Len(steps) - 1) :
        LET got == ReplayView(steps, k)
            p == replaySteps(<<>>, steps, k - 1)
            q == applyStep(p.mem, p.ref, steps[k + 1])
        IN /\ got = FoldView(SubSeq(steps, 1, k + 1))
           /\ got = View(q.mem, q.ref)
           /\ got = trail[k + 2].view

C1_Witness ==
    /\ Len(steps) = 3
    /\ steps[1].type = CREATE_NODE
    /\ steps[2].type = CREATE_NODE
    /\ steps[3].type = SET_NEXT
    /\ \E i \in 1..Len(HeapOf(mem, cur)) : HeapOf(mem, cur)[i].v.next # NULL

\* -------------------------------------------------------------------- C2
\* C2: for every negative index, replaySteps returns the empty snapshot:
\* empty stack, empty heap, nextAddr 0, lastModified null.
C2_NegativeIndexEmpty ==
    \A k \in (0 - MaxSlack)..(0 - 1) : ReplayView(steps, k) = EmptyView

C2_Witness ==
    /\ Len(steps) >= 2
    /\ steps[1].type = CREATE_NODE
    /\ ReplayView(steps, 0) # EmptyView

\* -------------------------------------------------------------------- C3
\* C3: applyStep does not mutate its input: every snapshot returned so far
\* still reads (stack, heap with the fields of each node, addressMap,
\* nextAddr, lastModified) as it read when it was returned.
C3_InputNotMutated ==
    \A t \in 1..Len(trail) : View(mem, trail[t].ref) = trail[t].view

C3_Witness ==
    /\ Len(trail) >= 4
    /\ trail[2].view.stack # trail[3].view.stack
    /\ trail[3].view.heap # trail[4].view.heap
    /\ trail[2].view.heap # <<>>

\* -------------------------------------------------------------------- C4
\* C4: two calls replaySteps(steps, k) with the same arguments return
\* snapshots that read the same and share no object, for every k, -1
\* included.
C4_ReplayIdempotent ==
    \A k \in ReplayIndexes :
        LET r1 == replaySteps(<<>>, steps, k)
            r2 == replaySteps(r1.mem, steps, k)
        IN /\ View(r1.mem, r1.ref) = View(r2.mem, r2.ref)
           /\ View(r2.mem, r1.ref) = View(r2.mem, r2.ref)
           /\ r1.ref # r2.ref
           /\ ObjectsOf(r2.mem, r1.ref) \cap ObjectsOf(r2.mem, r2.ref) = {}

C4_Witness ==
    /\ Len(steps) >= 2
    /\ Len(HeapOf(mem, cur)) >= 2
    /\ StackOf(mem, cur) # <<>>

\* -------------------------------------------------------------------- C5
\* C5: after a replay of a list with N CreateNode steps among any others,
\* the heap has N entries with pairwise distinct addresses, and the i-th
\* CreateNode step (from 0) minted the address of counter value i.
C5_AddressesMintedInOrder ==
    LET heap == HeapOf(mem, cur)
    IN /\ Len(heap) = Cardinality(CreateSteps)
       /\ \A i, j \in 1..Len(heap) : i # j => heap[i].k # heap[j].k
       /\ \A i \in CreateSteps :
              /\ heap[CreateRank(i) + 1].k = makeAddress(CreateRank(i))
              /\ heap[CreateRank(i) + 1].v.id = makeAddress(CreateRank(i))
              /\ trail[i + 1].view.lastModified = makeAddress(CreateRank(i))
       /\ Len(heap) >= 1 => heap[1].k = "0x100"
       /\ Len(heap) >= 2 => heap[2].k = "0x101"

C5_Witness ==
    /\ Len(steps) = 3
    /\ steps[1].type = CREATE_NODE
    /\ steps[2].type = ASSIGN_VAR
    /\ steps[3].type = CREATE_NODE
    /\ steps[3].varName = steps[1].varName

\* -------------------------------------------------------------------- C6
\* C6: no step removes a heap address; a CreateNode step adds exactly one
\* address that was not a key before, every other step adds none.
C6_HeapKeysNeverDeleted ==
    [][LET before == HeapKeys(mem, cur)
           after == HeapKeys(mem', cur')
       IN /\ before \subseteq after
          /\ steps'[Len(steps')].type # CREATE_NODE => after = before
          /\ steps'[Len(steps')].type = CREATE_NODE =>
                 /\ Cardinality(after \ before) = 1
                 /\ Len(HeapOf(mem', cur')) = Len(HeapOf(mem, cur)) + 1]_vars

C6_Witness ==
    /\ Len(steps) = 3
    /\ steps[1].type = CREATE_NODE
    /\ steps[2].type = SET_NULL
    /\ steps[2].varName = steps[1].varName
    /\ steps[3].type = CREATE_NODE
    /\ Cardinality(HeapKeys(mem, cur)) = 2

\* -------------------------------------------------------------------- C7
\* C7: nextAddr grows by exactly 1 on a CreateNode step and is unchanged by
\* every other step, so it never decreases.
C7_CounterMonotonic ==
    [][/\ steps'[Len(steps')].type = CREATE_NODE =>
              mem'[cur'].nextAddr = mem[cur].nextAddr + 1
       /\ steps'[Len(steps')].type # CREATE_NODE =>
              mem'[cur'].nextAddr = mem[cur].nextAddr]_vars

C7_Witness ==
    /\ Len(steps) = 3
    /\ steps[1].type = CREATE_NODE
    /\ steps[2].type = SET_NEXT
    /\ steps[3].type = CREATE_NODE
    /\ mem[cur].nextAddr = 2

\* -------------------------------------------------------------------- C8
\* C8: in every state reached by a replay, each stack slot holds null or an
\* address that is a key of the heap.
C8_NoDanglingStack ==
    \A i \in 1..Len(StackOf(mem, cur)) :
        \/ StackOf(mem, cur)[i].v = NULL
        \/ StackOf(mem, cur)[i].v \in HeapKeys(mem, cur)

\* -------------------------------------------------------------------- C9
\* C9: in every state reached by a replay, the next field of every heap node
\* is null or an address that is a key of the heap.
C9_NextWellFormed ==
    \A i \in 1..Len(HeapOf(mem, cur)) :
        \/ HeapOf(mem, cur)[i].v.next = NULL
        \/ HeapOf(mem, cur)[i].v.next \in HeapKeys(mem, cur)

\* ------------------------------------------------------------------- C10
\* C10: a CreateNode step (v, n) makes a fresh address a map to a node with
\* data n and next null, makes stack[v] and lastModified that address, and
\* leaves every other stack slot and every node that was in the heap as it
\* was, the node v addressed before included.
C10_CreateNodeEffect ==
    [][steps'[Len(steps')].type = CREATE_NODE =>
         LET st == steps'[Len(steps')]
             a == mem'[cur'].lastModified
             stackBefore == StackOf(mem, cur)
             stackAfter == StackOf(mem', cur')
             heapBefore == HeapOf(mem, cur)
             heapAfter == HeapOf(mem', cur')
         IN /\ a \notin HeapKeys(mem, cur)
            /\ a \in HeapKeys(mem', cur')
            /\ \A i \in 1..Len(heapAfter) :
                   heapAfter[i].k = a =>
                       /\ heapAfter[i].v.data = st.value
                       /\ heapAfter[i].v.next = NULL
            /\ GetProp(stackAfter, st.varName) = a
            /\ \A x \in VarNames \ {st.varName} :
                   GetProp(stackAfter, x) = GetProp(stackBefore, x)
            /\ \A i \in 1..Len(heapBefore) : heapAfter[i] = heapBefore[i]]_vars

\* --------------------------------------------------- reading one iteration
\* The value bound to a name in a stack: its slot, or null when the name has
\* no slot.
BoundValue(props, name) ==
    IF HasOwn(props, name) THEN props[OwnIndex(props, name)].v ELSE NULL

\* A name is bound to an address of a heap node.
BoundToNode(m, state, name) ==
    /\ HasOwn(StackOf(m, state), name)
    /\ BoundValue(StackOf(m, state), name) \in HeapKeys(m, state)

\* ------------------------------------------------------------------- C11
\* C11: a SetNext step (x, y) on a state where stack[x] is the address of a
\* heap node sets that node's next to stack[y], or to null when y is unbound
\* or bound to null, and leaves the node's data, every other node, the stack
\* and nextAddr as they were.
C11_SetNextEffect ==
    [][(/\ steps'[Len(steps')].type = SET_NEXT
        /\ BoundToNode(mem, cur, steps'[Len(steps')].varName)) =>
         LET st == steps'[Len(steps')]
             heapBefore == HeapOf(mem, cur)
             heapAfter == HeapOf(mem', cur')
             i == OwnIndex(heapBefore, BoundValue(StackOf(mem, cur), st.varName))
         IN /\ Len(heapAfter) = Len(heapBefore)
            /\ heapAfter[i].k = heapBefore[i].k
            /\ heapAfter[i].v.next = BoundValue(StackOf(mem, cur), st.targetVar)
            /\ heapAfter[i].v.data = heapBefore[i].v.data
            /\ \A j \in 1..Len(heapBefore) : j # i => heapAfter[j] = heapBefore[j]
            /\ StackOf(mem', cur') = StackOf(mem, cur)
            /\ mem'[cur'].nextAddr = mem[cur].nextAddr]_vars

\* ------------------------------------------------------------------- C12
\* C12: a SetNext or SetNull step whose variable is unbound, or bound to
\* null, changes nothing: stack, heap and nextAddr stay as in the input.
C12_UnboundIsNoOp ==
    [][(/\ steps'[Len(steps')].type \in {SET_NEXT, SET_NULL}
        /\ BoundValue(StackOf(mem, cur), steps'[Len(steps')].varName) = NULL) =>
         /\ StackOf(mem', cur') = StackOf(mem, cur)
         /\ Len(HeapOf(mem', cur')) = Len(HeapOf(mem, cur))
         /\ HeapOf(mem', cur') = HeapOf(mem, cur)
         /\ mem'[cur'].nextAddr = mem[cur].nextAddr]_vars

\* A no-op SetNull on a name bound to null, in a state with a node and with
\* another name bound to it.
C12_Witness ==
    /\ Len(steps) = 3
    /\ steps[1].type = CREATE_NODE
    /\ steps[2].type = ASSIGN_VAR
    /\ steps[2].varName # steps[1].varName
    /\ BoundValue(trail[3].view.stack, steps[2].varName) = NULL
    /\ HasOwn(trail[3].view.stack, steps[2].varName)
    /\ steps[3].type = SET_NULL
    /\ steps[3].varName = steps[2].varName

\* ------------------------------------------------------------------- C13
\* C13: a SetNull step (x) on a state where stack[x] is the address of a
\* heap node sets that node's next to null and lastModified to the address,
\* and leaves the node's data, every other node, the stack and nextAddr.
C13_SetNullEffect ==
    [][(/\ steps'[Len(steps')].type = SET_NULL
        /\ BoundToNode(mem, cur, steps'[Len(steps')].varName)) =>
         LET st == steps'[Len(steps')]
             heapBefore == HeapOf(mem, cur)
             heapAfter == HeapOf(mem', cur')
             addr == BoundValue(StackOf(mem, cur), st.varName)
             i == OwnIndex(heapBefore, addr)
         IN /\ Len(heapAfter) = Len(heapBefore)
            /\ heapAfter[i].k = addr
            /\ heapAfter[i].v.next = NULL
            /\ heapAfter[i].v.data = heapBefore[i].v.data
            /\ mem'[cur'].lastModified = addr
            /\ \A j \in 1..Len(heapBefore) : j # i => heapAfter[j] = heapBefore[j]
            /\ StackOf(mem', cur') = StackOf(mem, cur)
            /\ mem'[cur'].nextAddr = mem[cur].nextAddr]_vars

\* A self-loop a.next = a cleared by a.next = null.
C13_Witness ==
    /\ Len(steps) = 3
    /\ steps[1].type = CREATE_NODE
    /\ steps[2].type = SET_NEXT
    /\ steps[2].varName = steps[1].varName
    /\ trail[3].view.heap[1].v.next = trail[3].view.heap[1].k
    /\ steps[3].type = SET_NULL
    /\ steps[3].varName = steps[1].varName
    /\ HeapOf(mem, cur)[1].v.next = NULL

\* ------------------------------------------------------------------- C14
\* C14: an AssignVar step (x, y) sets stack[x] to the value of stack[y], or
\* to null when y is unbound; heap and nextAddr are unchanged, and x and y
\* hold the same address afterwards when y was bound to a node.
C14_AssignVarEffect ==
    [][steps'[Len(steps')].type = ASSIGN_VAR =>
         LET st == steps'[Len(steps')]
         IN /\ HasOwn(StackOf(mem', cur'), st.varName)
            /\ BoundValue(StackOf(mem', cur'), st.varName)
                   = BoundValue(StackOf(mem, cur), st.sourceVar)
            /\ HeapOf(mem', cur') = HeapOf(mem, cur)
            /\ mem'[cur'].nextAddr = mem[cur].nextAddr
            /\ BoundToNode(mem, cur, st.sourceVar) =>
                   /\ BoundToNode(mem', cur', st.varName)
                   /\ BoundValue(StackOf(mem', cur'), st.varName)
                          = BoundValue(StackOf(mem', cur'), st.sourceVar)]_vars

\* ------------------------------------------------------------------- C15
\* C15: lastModified after a step is decided by that step alone: the new
\* address after CreateNode, the node's address after a SetNext or SetNull
\* that changed a node, the copied address (null when the source is unbound)
\* after AssignVar, and null after a SetNext or SetNull that changed
\* nothing, whatever lastModified was before.
C15_LastModifiedOfStep ==
    [][LET st == steps'[Len(steps')]
           stackBefore == StackOf(mem, cur)
       IN /\ st.type = CREATE_NODE =>
                 /\ mem'[cur'].lastModified = makeAddress(mem[cur].nextAddr)
                 /\ mem'[cur'].lastModified \in HeapKeys(mem', cur') \ HeapKeys(mem, cur)
          /\ (st.type \in {SET_NEXT, SET_NULL} /\ BoundToNode(mem, cur, st.varName)) =>
                 mem'[cur'].lastModified = BoundValue(stackBefore, st.varName)
          /\ (st.type \in {SET_NEXT, SET_NULL} /\ ~BoundToNode(mem, cur, st.varName)) =>
                 mem'[cur'].lastModified = NULL
          /\ st.type = ASSIGN_VAR =>
                 mem'[cur'].lastModified = BoundValue(stackBefore, st.sourceVar)]_vars

\* ============================================================ buildChain
\* Most nodes of a heap handed to a query function.
MaxNodes == 3

\* The addresses a query is tried on: those of the first MaxNodes nodes.
Addresses == {makeAddress(n) : n \in 0..(MaxNodes - 1)}

\* What a next field or a stack slot can hold: an address, null, or (through
\* an inherited name) Object.prototype.
Pointers == Addresses \cup {NULL, OBJECT_PROTOTYPE}

\* A node as CREATE_NODE makes it, with a given next field.
NodeAt(addr, nxt) == [data |-> 1, next |-> nxt, id |-> addr]

\* The heaps whose keys are the addresses makeAddress(0..n-1) in minting
\* order, n <= MaxNodes, with every choice of next fields; a next field may
\* name an address the heap does not hold.
HeapsOfSize(n) ==
    {[i \in 1..n |-> [k |-> makeAddress(i - 1), v |-> NodeAt(makeAddress(i - 1), nx[i])]] :
        nx \in [1..n -> Pointers]}

Heaps == UNION {HeapsOfSize(n) : n \in 0..MaxNodes}

\* heap[cur].next; the next of what is not an own node is undefined.
NextOf(heap, addr) ==
    IF HasOwn(heap, addr) THEN heap[OwnIndex(heap, addr)].v.next ELSE UNDEFINED

\* The entry pushed for a cycle, `CYCLE:${cur}`.
CycleEntry(addr) == "CYCLE:" \o addr

\* The locals after `const visited = new Set(); const chain = []; let cur =
\* startAddr;`.
BcEnter(heap, startAddr) ==
    [pc |-> "while", heap |-> heap, startAddr |-> startAddr,
     visited |-> {}, chain |-> <<>>, cur |-> startAddr]

\* Variant: the loop condition without the visited test.
BcGuardNoVisited(f) == Truthy(f.cur) /\ HasTruthyProp(f.heap, f.cur)

\* cur && heap[cur] && !visited.has(cur)
BcGuard(f) ==
    /\ Truthy(f.cur)
    /\ HasTruthyProp(f.heap, f.cur)
    /\ f.cur \notin f.visited

\* Variant: the body pushes the address it moves to.
BcBodyPushesNext(f) ==
    [f EXCEPT !.visited = f.visited \cup {f.cur},
              !.chain = Append(f.chain, NextOf(f.heap, f.cur)),
              !.cur = NextOf(f.heap, f.cur)]

\* visited.add(cur); chain.push(cur); cur = heap[cur].next;
BcBody(f) ==
    [f EXCEPT !.visited = f.visited \cup {f.cur},
              !.chain = Append(f.chain, f.cur),
              !.cur = NextOf(f.heap, f.cur)]

\* Variant: the entry for a cycle is pushed whenever the walk stopped at an
\* address.
BcFinishAlwaysTags(f) ==
    [f EXCEPT !.pc = "done",
              !.chain = IF Truthy(f.cur) /\ f.cur # OBJECT_PROTOTYPE
                        THEN Append(f.chain, CycleEntry(f.cur))
                        ELSE f.chain]

\* if (cur && visited.has(cur)) chain.push(`CYCLE:${cur}`); return chain;
BcFinish(f) ==
    [f EXCEPT !.pc = "done",
              !.chain = IF Truthy(f.cur) /\ f.cur \in f.visited
                        THEN Append(f.chain, CycleEntry(f.cur))
                        ELSE f.chain]

\* The loop run to its end, from the locals f.
RECURSIVE BcRun(_)
BcRun(f) ==
    The({IF BcGuard(g) THEN BcRun(BcBody(g)) ELSE BcFinish(g) : g \in {f}})

\* buildChain(heap, startAddr): the array the call returns.
buildChain(heap, startAddr) == BcRun(BcEnter(heap, startAddr)).chain

\* A call buildChain(heap, startAddr) on any heap and any start.
InitChain ==
    /\ ReplayStart
    /\ app = NotMounted
    /\ \E heap \in Heaps, startAddr \in Pointers : frame = BcEnter(heap, startAddr)

\* One turn of `while (cur && heap[cur] && !visited.has(cur)) { ... }`.
BcWhile ==
    /\ frame.pc = "while"
    /\ BcGuard(frame)
    /\ frame' = BcBody(frame)
    /\ UNCHANGED <<mem, cur, steps, trail, app>>

\* The loop condition fails: the cycle entry if any, and the return.
BcExit ==
    /\ frame.pc = "while"
    /\ ~BcGuard(frame)
    /\ frame' = BcFinish(frame)
    /\ UNCHANGED <<mem, cur, steps, trail, app>>

NextChain ==
    \/ BcWhile
    \/ BcExit

\* The function is sequential code: a call that can take a step takes it.
SpecChain == InitChain /\ [][NextChain]_vars /\ WF_vars(NextChain)

BcDone == frame.pc = "done"

\* The entries of the result that are not the entry for a cycle.
IsCycleEntry(e) == \E a \in Pointers : e = CycleEntry(a)

BcPath == SelectSeq(frame.chain, LAMBDA e : ~IsCycleEntry(e))

BcHeapKeys == {frame.heap[i].k : i \in 1..Len(frame.heap)}

\* ------------------------------------------------------------------- C16
\* C16: buildChain returns for every heap and every start address, cyclic
\* heaps and self-loops included, and at no point holds more than
\* |heap| + 1 entries.
C16_BuildChainTerminates ==
    /\ [](Len(frame.chain) <= Len(frame.heap) + 1)
    /\ <>BcDone

\* A call that returned |heap| + 1 entries on a heap of MaxNodes nodes, each
\* of which lies on a cycle.
C16_Witness ==
    /\ BcDone
    /\ Len(frame.heap) = MaxNodes
    /\ Len(frame.chain) = MaxNodes + 1
    /\ \A i \in 1..Len(frame.heap) :
           \E j \in 1..Len(frame.heap) : frame.heap[j].v.next = frame.heap[i].k

\* ------------------------------------------------------------------- C17
\* C17: the result holds the entry for a cycle exactly when the walk stopped
\* at an address it had already pushed; that entry is then the last one, the
\* only one, and names that address.  A walk that stopped at null, at
\* undefined or at something the heap does not hold pushes no such entry.
C17_CycleEntryIffRevisit ==
    BcDone =>
        LET chain == frame.chain
            tagged == {i \in 1..Len(chain) : IsCycleEntry(chain[i])}
            revisit == \E i \in 1..Len(BcPath) : BcPath[i] = frame.cur
        IN /\ (tagged # {}) <=> revisit
           /\ tagged # {} =>
                  /\ tagged = {Len(chain)}
                  /\ chain[Len(chain)] = CycleEntry(frame.cur)
                  /\ \E i \in 1..(Len(chain) - 1) : chain[i] = frame.cur
           /\ (~Truthy(frame.cur) \/ frame.cur \notin BcHeapKeys) => tagged = {}

\* A call that returned with the entry for a cycle, on a walk of more than
\* one node.
C17_Witness ==
    /\ BcDone
    /\ Len(frame.chain) >= 3
    /\ IsCycleEntry(frame.chain[Len(frame.chain)])

\* ------------------------------------------------------------------- C18
\* C18: the entries of the result other than the entry for a cycle are the
\* path from the start address: the start first when the heap holds it (and
\* nothing otherwise), each later entry the next field of the one before,
\* every entry a key of the heap, none twice, and the path goes on until the
\* next field is null, not in the heap, or already on the path.
C18_ChainIsPath ==
    BcDone =>
        LET path == BcPath
            n == Len(path)
        IN /\ frame.startAddr \in BcHeapKeys => (n >= 1 /\ path[1] = frame.startAddr)
           /\ frame.startAddr \notin BcHeapKeys => n = 0
           /\ \A i \in 1..(n - 1) : path[i + 1] = NextOf(frame.heap, path[i])
           /\ \A i \in 1..n : path[i] \in BcHeapKeys
           /\ \A i, j \in 1..n : path[i] = path[j] => i = j
           /\ n >= 1 =>
                  LET last == NextOf(frame.heap, path[n])
                  IN last \notin BcHeapKeys \/ \E i \in 1..n : path[i] = last

\* A call that returned a path of MaxNodes nodes ending at null, begun at a
\* node that is not the first of the heap.
C18_Witness ==
    /\ BcDone
    /\ Len(BcPath) = MaxNodes
    /\ frame.chain = BcPath
    /\ frame.cur = NULL
    /\ frame.startAddr # frame.heap[1].k

\* ======================================================= findHeadAddress
\* The names a stack has slots for; an assignment to an inherited accessor
\* makes no slot.
SlotNames == VarNames \ InheritedKeys

\* The stacks a replay builds: slots for some of the names, in either order
\* of first binding, each holding the key of a node of `heap`, null, or
\* Object.prototype.
StacksOver(heap) ==
    LET held == {heap[i].k : i \in 1..Len(heap)} \cup {NULL, OBJECT_PROTOTYPE}
        orders == {q \in UNION {[1..n -> SlotNames] : n \in 0..Cardinality(SlotNames)} :
                      \A i, j \in 1..Len(q) : q[i] = q[j] => i = j}
    IN UNION {{[i \in 1..Len(q) |-> [k |-> q[i], v |-> val[i]]] :
                  val \in [1..Len(q) -> held]} : q \in orders}

\* The heaps a replay builds: every next field holds a key of the heap, null,
\* or Object.prototype.
ReplayHeaps ==
    {heap \in Heaps :
        \A i \in 1..Len(heap) :
            heap[i].v.next \in {heap[j].k : j \in 1..Len(heap)} \cup {NULL, OBJECT_PROTOTYPE}}

\* Object.values(obj): the own values in insertion order.
ObjectValues(props) == [i \in 1..Len(props) |-> props[i].v]

\* [...new Set(seq)]: the first occurrence of each element, in order.
Unique(seq) ==
    LET firsts == {i \in 1..Len(seq) : \A j \in 1..(i - 1) : seq[j] # seq[i]}
        Pick[i \in 0..Len(seq)] ==
            IF i = 0 THEN <<>>
            ELSE IF i \in firsts THEN Append(Pick[i - 1], seq[i]) ELSE Pick[i - 1]
    IN Pick[Len(seq)]

\* seq[0]: undefined on an empty array.
First(seq) == IF Len(seq) = 0 THEN UNDEFINED ELSE seq[1]

findHeadAddress(state) ==
    LET stack == state.stack
        heap == state.heap
        allAddresses == SelectSeq(ObjectValues(stack), Truthy)
        nextAddresses == {n \in {heap[i].v.next : i \in 1..Len(heap)} : Truthy(n)}
        heads == SelectSeq(allAddresses, LAMBDA addr : addr \notin nextAddresses)
        uniqueHeads == Unique(heads)
    IN IF Len(allAddresses) = 0 THEN NULL
       ELSE Nullish(First(uniqueHeads), First(allAddresses))

\* A call findHeadAddress(state) on the stack and heap of any replay state.
InitHead ==
    /\ ReplayStart
    /\ app = NotMounted
    /\ \E heap \in ReplayHeaps :
           \E stack \in StacksOver(heap) :
               frame = [pc |-> "call", state |-> [stack |-> stack, heap |-> heap],
                        result |-> UNDEFINED]

FindHead ==
    /\ frame.pc = "call"
    /\ frame' = [frame EXCEPT !.pc = "done", !.result = findHeadAddress(frame.state)]
    /\ UNCHANGED <<mem, cur, steps, trail, app>>

NextHead == FindHead

SpecHead == InitHead /\ [][NextHead]_vars

FhDone == frame.pc = "done"

\* Whether some node's next field holds the address, the node at the address
\* itself left out when `others` is TRUE.
PointedAt(heap, addr, others) ==
    \E i \in 1..Len(heap) :
        /\ heap[i].v.next = addr
        /\ others => heap[i].k # addr

\* The slots, as positions in the stack, that hold an address no node (no
\* other node) points at.
Candidates(state, others) ==
    {i \in 1..Len(state.stack) :
        /\ state.stack[i].v \notin {NULL, UNDEFINED, OBJECT_PROTOTYPE}
        /\ ~PointedAt(state.heap, state.stack[i].v, others)}

Lowest(S) == CHOOSE i \in S : \A j \in S : i <= j

\* ------------------------------------------------------------------- C19
\* C19: when some slot of the stack holds an address that is the next field
\* of no node, findHeadAddress returns the address held by the first such
\* slot in insertion order.
C19_FirstCandidateIsHead ==
    FhDone =>
        LET cand == Candidates(frame.state, FALSE)
        IN cand # {} => frame.result = frame.state.stack[Lowest(cand)].v

\* ------------------------------------------------------------------- C20
\* C20: an address counts when no other node points at it: a slot whose
\* node is pointed at by its own next field alone is a candidate, and when
\* no slot before it holds a candidate findHeadAddress returns its address,
\* not that of a later slot.
C20_SelfLoopIsCandidate ==
    FhDone =>
        LET state == frame.state
            cand == Candidates(state, TRUE)
        IN \A i \in cand :
               (/\ NextOf(state.heap, state.stack[i].v) = state.stack[i].v
                /\ i = Lowest(cand))
                   => frame.result = state.stack[i].v

\* The slots, as positions in the stack, that hold an address.
AddressSlots(state) ==
    {i \in 1..Len(state.stack) :
        state.stack[i].v \notin {NULL, UNDEFINED, OBJECT_PROTOTYPE}}

\* ------------------------------------------------------------------- C21
\* C21: when some slot holds an address and every address held by a slot is
\* the next field of some node, findHeadAddress returns the address held by
\* the first slot, in insertion order, that holds one.
C21_FallbackIsFirstAddress ==
    FhDone =>
        LET state == frame.state
            slots == AddressSlots(state)
        IN (/\ slots # {}
            /\ \A i \in slots : PointedAt(state.heap, state.stack[i].v, FALSE))
               => frame.result = state.stack[Lowest(slots)].v

\* ------------------------------------------------------------------- C22
\* C22: findHeadAddress returns null exactly when no slot of the stack holds
\* an address (no slot at all, or null in every slot); otherwise it returns
\* an address, and one that some slot holds.
C22_NullIffNoAddress ==
    FhDone =>
        LET state == frame.state
            slots == AddressSlots(state)
        IN /\ (frame.result = NULL) <=> (slots = {})
           /\ slots # {} => \E i \in slots : frame.result = state.stack[i].v

\* ======================================================= getVarsAtAddress
\* Most variables bound before a call of getVarsAtAddress.
MaxVars == 3

\* The names tried as stack variables: \w+ words, two of them all digits.
LabelNames == SlotNames \cup {"1", "2"}

\* The ways up to MaxVars variables are bound one after the other: each a
\* name and what its slot holds.
Bindings ==
    LET orders == {q \in UNION {[1..n -> LabelNames] : n \in 0..MaxVars} :
                      \A i, j \in 1..Len(q) : q[i] = q[j] => i = j}
    IN UNION {{[i \in 1..Len(q) |-> [k |-> q[i], v |-> val[i]]] :
                  val \in [1..Len(q) -> Pointers]} : q \in orders}

\* The stack after `s.stack[name] = value` for each binding in turn.
RECURSIVE StackFrom(_)
StackFrom(bound) ==
    IF bound = <<>> THEN <<>>
    ELSE LET n == Len(bound)
         IN SetProp(StackFrom(SubSeq(bound, 1, n - 1)), bound[n].k, bound[n].v)

\* Object.entries(stack).filter(([, addr]) => addr === address)
\*     .map(([name]) => name)
getVarsAtAddress(stack, address) ==
    LET entries == stack
        kept == SelectSeq(entries, LAMBDA e : e.v = address)
    IN [i \in 1..Len(kept) |-> kept[i].k]

\* A call getVarsAtAddress(stack, address); `bound` remembers in which order
\* the variables of the stack were bound.
InitVars ==
    /\ ReplayStart
    /\ app = NotMounted
    /\ \E bound \in Bindings, address \in Addresses :
           frame = [pc |-> "call", bound |-> bound, stack |-> StackFrom(bound),
                    address |-> address, result |-> <<>>]

GetVars ==
    /\ frame.pc = "call"
    /\ frame' = [frame EXCEPT !.pc = "done",
                              !.result = getVarsAtAddress(frame.stack, frame.address)]
    /\ UNCHANGED <<mem, cur, steps, trail, app>>

NextVars == GetVars

SpecVars == InitVars /\ [][NextVars]_vars

GvDone == frame.pc = "done"

\* The position at which a variable was bound.
BoundAt(name) == CHOOSE i \in 1..Len(frame.bound) : frame.bound[i].k = name

\* ------------------------------------------------------------------- C23
\* C23: getVarsAtAddress returns the variables whose slot holds the given
\* address, all of them and no other, each once, in the order in which they
\* were first bound.
C23_VarsInBindingOrder ==
    GvDone =>
        LET res == frame.result
        IN /\ {res[i] : i \in 1..Len(res)}
                  = {frame.bound[i].k : i \in {j \in 1..Len(frame.bound) :
                                                   frame.bound[j].v = frame.address}}
           /\ \A i, j \in 1..Len(res) : res[i] = res[j] => i = j
           /\ \A i, j \in 1..Len(res) : i < j => BoundAt(res[i]) < BoundAt(res[j])

\* ============================================================== parseCode
\* A line of source text is a sequence of tokens: a maximal run of word
\* characters (\w+) is one token, every other character is a token of its
\* own.  The patterns of parseCode delimit each literal word by ^, \s, \b or
\* punctuation, so they match a text exactly as their translations below
\* match its tokens.

\* The \w+ tokens that occur in the texts tried; DigitTokens are those made
\* of digits only (\d+).
Tens == <<"10", "20", "30">>

DigitTokens == {"0", "1", "2"} \cup {Tens[d] : d \in 1..Len(Tens)}

WordTokens ==
    {"Node", "new", "null", "next", "this", "class", "public", "private",
     "protected", "static", "int", "String", "void", "boolean", "return",
     "import", "package", "while", "for", "if", "a", "b", "i", "n", "cur",
     "data", "foo", "bar", "baz", "__proto__", "definition", "Main", "main",
     "args", "Create", "nodes", "Link", "Head", "and", "tail", "pointers",
     "first", "sec", "thir", "head"} \cup DigitTokens

\* \s
SpaceTokens == {" ", "\t"}

PunctTokens ==
    {"=", ";", ".", "(", ")", "{", "}", "/", "-", "!", "<", "+", "[", "]"}

NEWLINE == "\n"

\* . (any character but a line terminator)
AnyTokens == WordTokens \cup SpaceTokens \cup PunctTokens

\* No two word tokens side by side: they would be one token.
WellLexed(line) ==
    /\ \A i \in 1..Len(line) : line[i] \in AnyTokens
    /\ \A i \in 1..(Len(line) - 1) : ~(line[i] \in WordTokens /\ line[i + 1] \in WordTokens)

\* ----------------------------------------------------- regular expressions
\* One token out of a set, a sequence, an alternative, r*, r?, $ and \b.
Tok(c) == [t |-> "tok", c |-> c]
Lit(x) == [t |-> "tok", c |-> {x}]
Cat(rs) == [t |-> "cat", rs |-> rs]
Alt(rs) == [t |-> "alt", rs |-> rs]
Star(r) == [t |-> "star", r |-> r]
Plus(r) == Cat(<<r, Star(r)>>)
Opt(r) == [t |-> "opt", r |-> r]
AtEnd == [t |-> "end"]
WordBoundary == [t |-> "wb"]

\* \s*, \s+, \w+, one of several literal words
S0 == Star(Tok(SpaceTokens))
S1 == Plus(Tok(SpaceTokens))
Word == Tok(WordTokens)
OneOf(words) == Tok(words)

\* The positions a match of `re` can end at in `s` when it starts at one of
\* the positions P (a position is the number of tokens before it).  P is
\* taken through a bound variable, so that it is computed once.
RECURSIVE Ends(_, _, _)
Ends(re, s, P) ==
    UNION {
        CASE re.t = "tok" ->
                 {p + 1 : p \in {q \in Q : q < Len(s) /\ s[q + 1] \in re.c}}
          [] re.t = "cat" ->
                 IF re.rs = <<>> THEN Q
                 ELSE Ends(Cat(Tail(re.rs)), s, Ends(Head(re.rs), s, Q))
          [] re.t = "alt" ->
                 UNION {Ends(re.rs[i], s, Q) : i \in 1..Len(re.rs)}
          [] re.t = "star" ->
                 IF Q = {} THEN {}
                 ELSE Q \cup Ends(re, s, Ends(re.r, s, Q) \ Q)
          [] re.t = "opt" ->
                 Q \cup Ends(re.r, s, Q)
          [] re.t = "end" ->
                 {p \in Q : p = Len(s)}
          [] re.t = "wb" ->
                 {p \in Q : (p > 0 /\ s[p] \in WordTokens)
                                # (p < Len(s) /\ s[p + 1] \in WordTokens)}
        : Q \in {P}}

\* re.test(line) for a pattern that begins with ^.
Test(re, line) == Ends(re, line, {0}) # {}

\* ------------------------------------------------------------ the patterns
\* SKIP_PATTERNS, in the order of the array.
SKIP_PATTERNS ==
    << Cat(<<S0, Opt(Cat(<<Lit("/"), Lit("/"), Star(Tok(AnyTokens))>>)), AtEnd>>),
       Cat(<<S0, Opt(Lit("{")), S0, Opt(Lit("}")), S0, AtEnd>>),
       Cat(<<S0, Lit("class"), S1, Word>>),
       Cat(<<S0, OneOf({"public", "private", "protected"}), S1,
             Opt(Cat(<<Lit("static"), S1>>))>>),
       Cat(<<S0, OneOf({"int", "String", "Node", "void", "boolean"}), S1, Word, S0,
             Lit(";")>>),
       Cat(<<S0, Word, S0, Lit("("), S0, OneOf({"int", "String", "Node"}), S1, Word,
             S0, Lit(")")>>),
       Cat(<<S0, Lit("this"), Lit("."), Word, S0, Lit("=")>>),
       Cat(<<S0, Lit("return"), WordBoundary>>),
       Cat(<<S0, Lit("}"), S0, AtEnd>>),
       Cat(<<S0, Lit("{"), S0, AtEnd>>),
       Cat(<<S0, Lit("import"), S1>>),
       Cat(<<S0, Lit("package"), S1>>) >>

\* \s*;?\s*$
StatementEnd == Cat(<<S0, Opt(Lit(";")), S0, AtEnd>>)

\* The statement patterns, each cut at its capture groups: the parts at the
\* even positions are the groups.
RE_CREATE ==
    << Cat(<<S0, Lit("Node"), S1>>), Word,
       Cat(<<S0, Lit("="), S0, Lit("new"), S1, Lit("Node"), S0, Lit("("), S0>>),
       Cat(<<Opt(Lit("-")), Tok(DigitTokens)>>),
       Cat(<<S0, Lit(")"), StatementEnd>>) >>

RE_SET_NULL ==
    << S0, Word,
       Cat(<<Lit("."), Lit("next"), S0, Lit("="), S0, Lit("null"), StatementEnd>>) >>

RE_SET_NEXT ==
    << S0, Word,
       Cat(<<Lit("."), Lit("next"), S0, Lit("="), S0>>), Word,
       StatementEnd >>

RE_ASSIGN ==
    << Cat(<<S0, Lit("Node"), S1>>), Word,
       Cat(<<S0, Lit("="), S0>>), Word,
       StatementEnd >>

RE_REASSIGN ==
    << S0, Word,
       Cat(<<S0, Lit("="), S0>>), Word,
       StatementEnd >>

\* Whether re.exec(line) finds a match.
Matches(parts, line) == Test(Cat(parts), line)

\* match[k] of re.exec(line), as tokens.  Every group is delimited on both
\* sides by tokens it cannot hold, so what it captures does not depend on
\* the order in which the matcher tries its choices.
Group(parts, line, k) ==
    LET before == Cat(SubSeq(parts, 1, 2 * k - 1))
        after == Cat(SubSeq(parts, 2 * k + 1, Len(parts)))
        spans == {sp \in UNION {{<<p, q>> : q \in Ends(parts[2 * k], line, {p})} :
                                    p \in Ends(before, line, {0})} :
                     Ends(after, line, {sp[2]}) # {}}
        span == CHOOSE sp \in spans : TRUE
    IN SubSeq(line, span[1] + 1, span[2])

\* The text of a run of tokens.
RECURSIVE Text(_)
Text(tokens) ==
    The({IF ts = <<>> THEN "" ELSE Head(ts) \o Text(Tail(ts)) : ts \in {tokens}})

\* The number a \d+ token is the decimal numeral of: one digit, or one of
\* the tens.
Decimal(digits) ==
    IF IsArrayIndex(digits) THEN ArrayIndex(digits)
    ELSE 10 * (CHOOSE d \in 1..Len(Tens) : Tens[d] = digits)

\* parseInt(text, 10) of -?\d+.
ParseInt(tokens) ==
    IF Head(tokens) = "-" THEN 0 - Decimal(tokens[2]) ELSE Decimal(tokens[1])

\* line.trim()
RECURSIVE TrimStart(_)
TrimStart(line) ==
    The({IF l # <<>> /\ Head(l) \in SpaceTokens THEN TrimStart(Tail(l)) ELSE l :
             l \in {line}})

RECURSIVE TrimEnd(_)
TrimEnd(line) ==
    The({IF l # <<>> /\ l[Len(l)] \in SpaceTokens
         THEN TrimEnd(SubSeq(l, 1, Len(l) - 1))
         ELSE l : l \in {line}})

Trim(line) == TrimEnd(TrimStart(line))

\* code.split('\n'): the runs of tokens between the newlines, one more than
\* there are newlines.
RECURSIVE Split(_)
Split(code) ==
    The({IF \A i \in 1..Len(c) : c[i] # NEWLINE THEN <<c>>
         ELSE The({<<SubSeq(c, 1, nl - 1)>> \o Split(SubSeq(c, nl + 1, Len(c))) :
                       nl \in {i \in 1..Len(c) :
                                  /\ c[i] = NEWLINE
                                  /\ \A j \in 1..(i - 1) : c[j] # NEWLINE}})
         : c \in {code}})

\* Variant: a line that opens a loop or a conditional is boilerplate too.
IsBoilerplateOrControlFlow(line) ==
    \/ \E i \in 1..Len(SKIP_PATTERNS) : Test(SKIP_PATTERNS[i], line)
    \/ Test(Cat(<<S0, OneOf({"while", "for", "if"}), S0, Lit("(")>>), line)

\* SKIP_PATTERNS.some(re => re.test(line))
IsBoilerplate(line) == \E i \in 1..Len(SKIP_PATTERNS) : Test(SKIP_PATTERNS[i], line)

\* --------------------------------------------------------- the step records
\* The records parseCode pushes.  In the description texts the arrow is
\* written -> and the backquote ' here.
ParsedCreate(lineNum, line) ==
    LET m1 == Text(Group(RE_CREATE, line, 1))
        m2 == Group(RE_CREATE, line, 2)
    IN [type |-> CREATE_NODE, lineIndex |-> lineNum, varName |-> m1,
        value |-> ParseInt(m2),
        description |-> "Create Node(" \o Text(m2) \o ") -> assign to '" \o m1 \o "'"]

ParsedSetNull(lineNum, line) ==
    LET m1 == Text(Group(RE_SET_NULL, line, 1))
    IN [type |-> SET_NULL, lineIndex |-> lineNum, varName |-> m1,
        description |-> "Set '" \o m1 \o ".next' = null"]

ParsedSetNext(lineNum, line) ==
    LET m1 == Text(Group(RE_SET_NEXT, line, 1))
        m2 == Text(Group(RE_SET_NEXT, line, 2))
    IN [type |-> SET_NEXT, lineIndex |-> lineNum, varName |-> m1, targetVar |-> m2,
        description |-> "Link '" \o m1 \o ".next' -> '" \o m2 \o "'"]

ParsedAssign(lineNum, line) ==
    LET m1 == Text(Group(RE_ASSIGN, line, 1))
        m2 == Text(Group(RE_ASSIGN, line, 2))
    IN [type |-> ASSIGN_VAR, lineIndex |-> lineNum, varName |-> m1, sourceVar |-> m2,
        description |-> "Declare '" \o m1 \o "' -> points to same node as '" \o m2 \o "'"]

ParsedReassign(lineNum, line) ==
    LET m1 == Text(Group(RE_REASSIGN, line, 1))
        m2 == Text(Group(RE_REASSIGN, line, 2))
    IN [type |-> ASSIGN_VAR, lineIndex |-> lineNum, varName |-> m1, sourceVar |-> m2,
        description |-> "Reassign '" \o m1 \o "' -> points to same node as '" \o m2 \o "'"]

\* Variant: the error carries the line's number counted from 1.
ParseErrorOneBased(lineNum, line) ==
    [lineIndex |-> lineNum + 1,
     message |-> "Unrecognized syntax: \"" \o Text(Trim(line)) \o "\""]

ParseError(lineNum, line) ==
    [lineIndex |-> lineNum,
     message |-> "Unrecognized syntax: \"" \o Text(Trim(line)) \o "\""]

\* ------------------------------------------------------------ the callback
\* Variant: x.next = y is tried before x.next = null.
StatementShapeNextFirst(line) ==
    IF Matches(RE_CREATE, line) THEN "RE_CREATE"
    ELSE IF Matches(RE_SET_NEXT, line) THEN "RE_SET_NEXT"
    ELSE IF Matches(RE_SET_NULL, line) THEN "RE_SET_NULL"
    ELSE IF Matches(RE_ASSIGN, line) THEN "RE_ASSIGN"
    ELSE IF Matches(RE_REASSIGN, line) THEN "RE_REASSIGN"
    ELSE "none"

\* The first of the statement patterns whose exec succeeds, in the order of
\* the if statements.
StatementShape(line) ==
    IF Matches(RE_CREATE, line) THEN "RE_CREATE"
    ELSE IF Matches(RE_SET_NULL, line) THEN "RE_SET_NULL"
    ELSE IF Matches(RE_SET_NEXT, line) THEN "RE_SET_NEXT"
    ELSE IF Matches(RE_ASSIGN, line) THEN "RE_ASSIGN"
    ELSE IF Matches(RE_REASSIGN, line) THEN "RE_REASSIGN"
    ELSE "none"

\* Variant: the statement patterns are tried before the boilerplate filter.
BranchStatementsFirst(line) ==
    IF StatementShape(line) # "none" THEN StatementShape(line)
    ELSE IF IsBoilerplate(line) THEN "skip" ELSE "none"

\* What a call of the forEach callback does for (line, index): the branch
\* taken and the record pushed, if any.
Branch(line) == IF IsBoilerplate(line) THEN "skip" ELSE StatementShape(line)

Pushed(lineNum, line) ==
    CASE Branch(line) = "RE_CREATE" -> ParsedCreate(lineNum, line)
      [] Branch(line) = "RE_SET_NULL" -> ParsedSetNull(lineNum, line)
      [] Branch(line) = "RE_SET_NEXT" -> ParsedSetNext(lineNum, line)
      [] Branch(line) = "RE_ASSIGN" -> ParsedAssign(lineNum, line)
      [] Branch(line) = "RE_REASSIGN" -> ParsedReassign(lineNum, line)
      [] Branch(line) = "none" -> ParseError(lineNum, line)

\* Variant: an unrecognized line ends the pass, its error the last record.
CallbackStopsAtError(f) ==
    LET line == f.lines[f.index + 1]
        branch == Branch(line)
    IN IF branch = "skip" THEN [f EXCEPT !.index = f.index + 1]
       ELSE IF branch = "none"
            THEN [f EXCEPT !.index = Len(f.lines),
                           !.errors = Append(f.errors, Pushed(f.index, line))]
            ELSE [f EXCEPT !.index = f.index + 1,
                           !.steps = Append(f.steps, Pushed(f.index, line))]

\* Variant: an unrecognized line is thrown as an exception.
CallbackThrows(f) ==
    LET line == f.lines[f.index + 1]
        branch == Branch(line)
    IN IF branch = "skip" THEN [f EXCEPT !.index = f.index + 1]
       ELSE IF branch = "none"
            THEN [f EXCEPT !.pc = "thrown"]
            ELSE [f EXCEPT !.index = f.index + 1,
                           !.steps = Append(f.steps, Pushed(f.index, line))]

\* The locals of parseCode after the call of the callback for the line at
\* f.index.
Callback(f) ==
    LET line == f.lines[f.index + 1]
        branch == Branch(line)
    IN IF branch = "skip" THEN [f EXCEPT !.index = f.index + 1]
       ELSE IF branch = "none"
            THEN [f EXCEPT !.index = f.index + 1,
                           !.errors = Append(f.errors, Pushed(f.index, line))]
            ELSE [f EXCEPT !.index = f.index + 1,
                           !.steps = Append(f.steps, Pushed(f.index, line))]

\* const lines = code.split('\n'); const steps = []; const errors = [];
ParseEnter(code) ==
    [pc |-> "forEach", code |-> code, lines |-> Split(code), index |-> 0,
     steps |-> <<>>, errors |-> <<>>]

\* lines.forEach(...) from f on, and the return.
RECURSIVE ForEach(_)
ForEach(f) ==
    The({IF g.index < Len(g.lines) THEN ForEach(Callback(g)) ELSE g : g \in {f}})

parseCode(code) ==
    The({[steps |-> f.steps, errors |-> f.errors] : f \in {ForEach(ParseEnter(code))}})

\* ----------------------------------------------------------- source texts
\* Most lines of a source text.
MaxLines == 2

\* The lines the texts are made of: every statement shape, with and without
\* the optional spaces and semicolon; every kind of boilerplate; lines of
\* control flow; lines that are no Java at all.
StatementLines ==
    { <<"Node", " ", "a", " ", "=", " ", "new", " ", "Node", "(", "1", ")", ";">>,
      <<"Node", " ", "b", "=", "new", " ", "Node", " ", "(", " ", "-", "2", " ", ")">>,
      <<"a", ".", "next", " ", "=", " ", "null", ";">>,
      <<"a", ".", "next", " ", "=", " ", "b", ";">>,
      <<"\t", "b", ".", "next", "=", "a", " ">>,
      <<"Node", " ", "b", " ", "=", " ", "a", ";">>,
      <<"b", " ", "=", " ", "a", ";">>,
      <<"Node", " ", "a", " ", "=", " ", "null", ";">> }

BoilerplateLines ==
    { <<>>,
      <<" ", "\t">>,
      <<"/", "/", " ", "foo">>,
      <<"{">>,
      <<" ", "}">>,
      <<"class", " ", "Node", " ", "{">>,
      <<"public", " ", "static", " ", "void", " ", "foo", "(", ")", " ", "{">>,
      <<"int", " ", "data", ";">>,
      <<"Node", "(", "int", " ", "data", ")", " ", "{">>,
      <<"this", ".", "next", " ", "=", " ", "null", ";">>,
      <<"return", " ", "a", ";">>,
      <<"import", " ", "foo", ";">>,
      <<"package", " ", "foo", ";">> }

ControlFlowLines ==
    { <<"while", " ", "(", "cur", " ", "!", "=", " ", "null", ")", " ", "{">>,
      <<"for", " ", "(", "int", " ", "i", " ", "=", " ", "0", ";", " ", "i", " ", "<",
        " ", "n", ";", " ", "i", "+", "+", ")", " ", "{">>,
      <<"if", " ", "(", "a", " ", "=", "=", " ", "b", ")", " ", "{">> }

OtherLines ==
    { <<"foo", " ", "bar", " ", "baz">>,
      <<" ", "a", ".", "next", " ", "=", " ", ";", "\t">> }

SampleLines == StatementLines \cup BoilerplateLines \cup ControlFlowLines \cup OtherLines

\* The text whose lines are the given ones: the lines with a newline between
\* each two.
RECURSIVE JoinLines(_)
JoinLines(ls) ==
    The({IF Len(l) = 1 THEN l[1]
         ELSE l[1] \o <<NEWLINE>> \o JoinLines(Tail(l)) : l \in {ls}})

\* The texts of one to MaxLines lines; the text of the one empty line is the
\* empty string.
Codes ==
    {JoinLines(ls) : ls \in UNION {[1..n -> SampleLines] : n \in 1..MaxLines}}

\* ------------------------------------------------------- a call of parseCode
InitParse ==
    /\ ReplayStart
    /\ app = NotMounted
    /\ \E code \in Codes : frame = ParseEnter(code)

\* The line the next call of the callback is for.
AtLine(branch) ==
    /\ frame.pc = "forEach"
    /\ frame.index < Len(frame.lines)
    /\ Branch(frame.lines[frame.index + 1]) = branch

\* One call of the callback, for each way it returns.
ForEachSkip ==
    /\ AtLine("skip")
    /\ frame' = Callback(frame)
    /\ UNCHANGED <<mem, cur, steps, trail, app>>

ForEachCreate ==
    /\ AtLine("RE_CREATE")
    /\ frame' = Callback(frame)
    /\ UNCHANGED <<mem, cur, steps, trail, app>>

ForEachSetNull ==
    /\ AtLine("RE_SET_NULL")
    /\ frame' = Callback(frame)
    /\ UNCHANGED <<mem, cur, steps, trail, app>>

ForEachSetNext ==
    /\ AtLine("RE_SET_NEXT")
    /\ frame' = Callback(frame)
    /\ UNCHANGED <<mem, cur, steps, trail, app>>

ForEachAssign ==
    /\ AtLine("RE_ASSIGN")
    /\ frame' = Callback(frame)
    /\ UNCHANGED <<mem, cur, steps, trail, app>>

ForEachReassign ==
    /\ AtLine("RE_REASSIGN")
    /\ frame' = Callback(frame)
    /\ UNCHANGED <<mem, cur, steps, trail, app>>

ForEachError ==
    /\ AtLine("none")
    /\ frame' = Callback(frame)
    /\ UNCHANGED <<mem, cur, steps, trail, app>>

\* return { steps, errors };
ParseReturn ==
    /\ frame.pc = "forEach"
    /\ frame.index = Len(frame.lines)
    /\ frame' = [frame EXCEPT !.pc = "done"]
    /\ UNCHANGED <<mem, cur, steps, trail, app>>

NextParse ==
    \/ ForEachSkip
    \/ ForEachCreate
    \/ ForEachSetNull
    \/ ForEachSetNext
    \/ ForEachAssign
    \/ ForEachReassign
    \/ ForEachError
    \/ ParseReturn

\* The function is sequential code: a call that can take a step takes it.
SpecParse == InitParse /\ [][NextParse]_vars /\ WF_vars(NextParse)

ParseDone == frame.pc = "done"

\* The number of lines of the text: one more than it has newlines.
LineCount(code) == Cardinality({i \in 1..Len(code) : code[i] = NEWLINE}) + 1

\* The statement patterns and the type of the step each stands for, in the
\* order they are tried.
Shapes == <<RE_CREATE, RE_SET_NULL, RE_SET_NEXT, RE_ASSIGN, RE_REASSIGN>>

ShapeType == <<CREATE_NODE, SET_NULL, SET_NEXT, ASSIGN_VAR, ASSIGN_VAR>>

MatchedShapes(line) == {k \in 1..Len(Shapes) : Matches(Shapes[k], line)}

\* The records of a list that carry a given line index, as positions.
RecordsOf(list, lineNum) == {i \in 1..Len(list) : list[i].lineIndex = lineNum}

Ascending(list) ==
    \A i, j \in 1..Len(list) : i < j => list[i].lineIndex < list[j].lineIndex

\* ------------------------------------------------------------------- C24
\* C24: every step and every error of parseCode carries a line index from 0
\* up to, not including, the number of lines of the text, and the steps, and
\* the errors, come in strictly ascending order of line index.
C24_LineIndexInRangeAscending ==
    /\ \A i \in 1..Len(frame.steps) :
           frame.steps[i].lineIndex \in 0..(LineCount(frame.code) - 1)
    /\ \A i \in 1..Len(frame.errors) :
           frame.errors[i].lineIndex \in 0..(LineCount(frame.code) - 1)
    /\ Ascending(frame.steps)
    /\ Ascending(frame.errors)

\* A call that returned a step and, for the last line, an error.
C24_Witness ==
    /\ ParseDone
    /\ Len(frame.steps) >= 1
    /\ \E i \in 1..Len(frame.errors) :
           frame.errors[i].lineIndex = LineCount(frame.code) - 1

\* ------------------------------------------------------------------- C25
\* C25: the statement patterns are tried in the order CreateNode, SetNull,
\* SetNext, declaration, reassignment, and the first that matches decides: a
\* line that is not boilerplate and matches some pattern yields one step, of
\* the type of the first pattern it matches; a line x.next = null; yields a
\* SetNull step, and no SetNext step has the target null.
C25_FirstShapeWins ==
    ParseDone =>
        /\ \A n \in 1..Len(frame.lines) :
               LET line == frame.lines[n]
                   first == CHOOSE k \in MatchedShapes(line) :
                                \A j \in MatchedShapes(line) : k <= j
                   found == RecordsOf(frame.steps, n - 1)
               IN (~IsBoilerplate(line) /\ MatchedShapes(line) # {}) =>
                      /\ Cardinality(found) = 1
                      /\ \A i \in found :
                             /\ frame.steps[i].type = ShapeType[first]
                             /\ frame.steps[i].varName = Text(Group(Shapes[first], line, 1))
        /\ \A i \in 1..Len(frame.steps) :
               frame.steps[i].type = SET_NEXT => frame.steps[i].targetVar # "null"

\* A call that returned a SetNull step for a line that the SetNext pattern
\* matches as well.
C25_Witness ==
    /\ ParseDone
    /\ \E i \in 1..Len(frame.steps) :
           /\ frame.steps[i].type = SET_NULL
           /\ {2, 3} \subseteq MatchedShapes(frame.lines[frame.steps[i].lineIndex + 1])

\* ------------------------------------------------------------------- C26
\* A list of lines without its n-th, and a list of records without those of
\* line index lineNum, the later ones renumbered as if that line were not
\* there.
WithoutLine(lines, n) == SubSeq(lines, 1, n - 1) \o SubSeq(lines, n + 1, Len(lines))

WithoutRecordsOf(list, lineNum) ==
    LET kept == SelectSeq(list, LAMBDA r : r.lineIndex # lineNum)
    IN [i \in 1..Len(kept) |->
           IF kept[i].lineIndex > lineNum
           THEN [kept[i] EXCEPT !.lineIndex = kept[i].lineIndex - 1]
           ELSE kept[i]]

\* C26: a line that matches no boilerplate pattern and no statement pattern
\* yields one error, with its line index and the message Unrecognized
\* syntax: "<the line, trimmed>", and no step; the pass goes on: the other
\* lines yield what they yield in the text without that line.
C26_UnrecognizedLineIsOneError ==
    ParseDone =>
        \A n \in 1..Len(frame.lines) :
            LET line == frame.lines[n]
                found == RecordsOf(frame.errors, n - 1)
                rest == IF Len(frame.lines) = 1 THEN <<>>
                        ELSE JoinLines(WithoutLine(frame.lines, n))
            IN (~IsBoilerplate(line) /\ MatchedShapes(line) = {}) =>
                   /\ Cardinality(found) = 1
                   /\ \A i \in found :
                          frame.errors[i].message
                              = "Unrecognized syntax: \"" \o Text(Trim(line)) \o "\""
                   /\ RecordsOf(frame.steps, n - 1) = {}
                   /\ parseCode(rest)
                          = [steps |-> WithoutRecordsOf(frame.steps, n - 1),
                             errors |-> WithoutRecordsOf(frame.errors, n - 1)]

\* A call that returned a step for a line after an unrecognized line whose
\* text has spaces around it.
C26_Witness ==
    /\ ParseDone
    /\ \E i \in 1..Len(frame.errors), j \in 1..Len(frame.steps) :
           /\ frame.errors[i].lineIndex < frame.steps[j].lineIndex
           /\ Trim(frame.lines[frame.errors[i].lineIndex + 1])
                  # frame.lines[frame.errors[i].lineIndex + 1]

\* ------------------------------------------------------------------- C27
\* C27: the boilerplate filter comes first and is silent: a line that matches
\* a skip pattern yields neither step nor error, also when a statement
\* pattern matches it too; no line yields more than one record, so steps and
\* errors together are no more than the lines, and no line index is in both.
C27_BoilerplateIsSilent ==
    ParseDone =>
        /\ \A n \in 1..Len(frame.lines) :
               /\ IsBoilerplate(frame.lines[n]) =>
                      /\ RecordsOf(frame.steps, n - 1) = {}
                      /\ RecordsOf(frame.errors, n - 1) = {}
               /\ Cardinality(RecordsOf(frame.steps, n - 1))
                      + Cardinality(RecordsOf(frame.errors, n - 1)) <= 1
        /\ Len(frame.steps) + Len(frame.errors) <= LineCount(frame.code)

\* A call that returned nothing for a line that is boilerplate and matches a
\* statement pattern as well.
C27_Witness ==
    /\ ParseDone
    /\ \E n \in 1..Len(frame.lines) :
           /\ IsBoilerplate(frame.lines[n])
           /\ MatchedShapes(frame.lines[n]) # {}
    /\ Len(frame.steps) + Len(frame.errors) = Len(frame.lines) - 1

\* ------------------------------------------------------------------- C28
\* C28 as stated: a line that opens a loop or a conditional yields neither
\* step nor error.
C28_ControlFlowIsBoilerplate ==
    ParseDone =>
        \A n \in 1..Len(frame.lines) :
            frame.lines[n] \in ControlFlowLines =>
                /\ RecordsOf(frame.steps, n - 1) = {}
                /\ RecordsOf(frame.errors, n - 1) = {}

\* C28, amended: a line that opens a loop or a conditional (while, for, if)
\* matches no skip pattern and no statement pattern: it yields no step and
\* one Unrecognized syntax error.
C28_ControlFlowIsUnrecognized ==
    ParseDone =>
        \A n \in 1..Len(frame.lines) :
            frame.lines[n] \in ControlFlowLines =>
                /\ RecordsOf(frame.steps, n - 1) = {}
                /\ Cardinality(RecordsOf(frame.errors, n - 1)) = 1

\* A call that returned on a text of MaxLines lines, each of them a different
\* control flow line.
C28_Witness ==
    /\ ParseDone
    /\ Len(frame.lines) = MaxLines
    /\ \A n \in 1..Len(frame.lines) : frame.lines[n] \in ControlFlowLines
    /\ \A n, k \in 1..Len(frame.lines) : frame.lines[n] = frame.lines[k] => n = k
    /\ Len(frame.errors) = MaxLines

\* ------------------------------------------------------------------- C29
\* What a snapshot is made of: three maps, a counter that counts the nodes,
\* the highlighted address or null.
IsSnapshot(v) ==
    /\ DOMAIN v = {"stack", "heap", "addressMap", "nextAddr", "lastModified"}
    /\ v.nextAddr \in Nat
    /\ Len(v.heap) = v.nextAddr
    /\ \A i \in 1..Len(v.heap) :
           /\ v.heap[i].k = makeAddress(i - 1)
           /\ v.heap[i].v.data \in Int
    /\ \A i \in 1..Len(v.stack) : v.stack[i].k \in WordTokens
    /\ v.lastModified \in {v.heap[i].k : i \in 1..Len(v.heap)} \cup {NULL, OBJECT_PROTOTYPE}

\* C29: parseCode returns for every text, blank and malformed ones included,
\* with a list of steps and a list of errors, and a replay of the steps it
\* returned, to any index, returns a snapshot.
C29_ParseAndReplayTotal ==
    /\ <>ParseDone
    /\ [](ParseDone =>
              /\ \A i \in 1..Len(frame.steps) : frame.steps[i].type \in STEP_TYPES
              /\ \A k \in (0 - MaxSlack)..(Len(frame.steps) + MaxSlack) :
                     IsSnapshot(ReplayView(frame.steps, k)))

\* A call that returned a step and an error, the step with a name that
\* Object.prototype defines or the word null.
C29_Witness ==
    /\ ParseDone
    /\ Len(frame.errors) >= 1
    /\ \E i \in 1..Len(frame.steps) :
           /\ frame.steps[i].type = ASSIGN_VAR
           /\ frame.steps[i].sourceVar \in {"null", "__proto__"}

\* ==================================================================== App
\* The component's state as of its last render (code, steps, errors,
\* currentStep, isPlaying), the memory state that render derived (memState),
\* the state updates called for and not yet rendered, in the order of the
\* calls (queue), and the interval timer with the steps.length its callback
\* closed over (timer).
\*
\* A handler runs in an event of the page: the updates it calls for are
\* rendered, after the ones that wait, before the event ends.  The updates
\* of the mount effect and of the interval callback wait for a render of
\* their own, and a handler may run before it.  The interval is 200 ms at
\* least (speed is 2200 minus the slider's 200..2000), so the render a tick
\* waits for runs before the next tick.  The value of speed itself is left
\* out: time is not part of the state.  `attended` tells whether the user
\* still gives input.

Indent == <<" ", " ", " ", " ">>

\* The text the editor starts with.
SAMPLE_CODE ==
    JoinLines(<<
        <<"/", "/", " ", "Node", " ", "class", " ", "definition">>,
        <<"class", " ", "Node", " ", "{">>,
        Indent \o <<"int", " ", "data", ";">>,
        Indent \o <<"Node", " ", "next", ";">>,
        Indent \o <<"Node", "(", "int", " ", "data", ")", " ", "{">>,
        Indent \o Indent \o <<"this", ".", "data", " ", "=", " ", "data", ";">>,
        Indent \o Indent \o <<"this", ".", "next", " ", "=", " ", "null", ";">>,
        Indent \o <<"}">>,
        <<"}">>,
        <<>>,
        <<"/", "/", " ", "Main", " ", "class">>,
        <<"class", " ", "Main", " ", "{">>,
        Indent \o <<"public", " ", "static", " ", "void", " ", "main", "(",
                    "String", "[", "]", " ", "args", ")", " ", "{">>,
        <<>>,
        Indent \o Indent \o <<"/", "/", " ", "Create", " ", "nodes">>,
        Indent \o Indent \o <<"Node", " ", "first", " ", "=", " ", "new", " ",
                              "Node", "(", "10", ")", ";">>,
        Indent \o Indent \o <<"Node", " ", "sec", " ", "=", " ", "new", " ",
                              "Node", "(", "20", ")", ";">>,
        Indent \o Indent \o <<"Node", " ", "thir", " ", "=", " ", "new", " ",
                              "Node", "(", "30", ")", ";">>,
        <<>>,
        Indent \o Indent \o <<"/", "/", " ", "Link", " ", "nodes">>,
        Indent \o Indent \o <<"first", ".", "next", " ", "=", " ", "sec", ";">>,
        Indent \o Indent \o <<"sec", ".", "next", " ", "=", " ", "thir", ";">>,
        <<>>,
        Indent \o Indent \o <<"/", "/", " ", "Head", " ", "and", " ", "tail", " ",
                              "pointers">>,
        Indent \o Indent \o <<"Node", " ", "head", " ", "=", " ", "first", ";">>,
        Indent \o Indent \o <<"Node", " ", "tail", " ", "=", " ", "thir", ";">>,
        <<>>,
        Indent \o <<"}">>,
        <<"}">> >>)

\* The texts the editor's content is changed to: the empty text, two texts
\* of one statement, a text of two statements, a text of a statement and a
\* line that is none, a text of three statements, a text of four, a text of
\* a line of control flow.
AppCodes ==
    { <<>>,
      <<"Node", " ", "a", " ", "=", " ", "new", " ", "Node", "(", "1", ")", ";">>,
      <<"Node", " ", "b", "=", "new", " ", "Node", " ", "(", " ", "-", "2", " ", ")">>,
      JoinLines(<< <<"Node", " ", "a", " ", "=", " ", "new", " ", "Node", "(", "1", ")", ";">>,
                   <<"a", ".", "next", " ", "=", " ", "a", ";">> >>),
      JoinLines(<< <<"Node", " ", "a", " ", "=", " ", "new", " ", "Node", "(", "1", ")", ";">>,
                   <<"foo", " ", "bar", " ", "baz">> >>),
      JoinLines(<< <<"Node", " ", "a", " ", "=", " ", "new", " ", "Node", "(", "1", ")", ";">>,
                   <<"Node", " ", "b", " ", "=", " ", "new", " ", "Node", "(", "2", ")", ";">>,
                   <<"a", ".", "next", " ", "=", " ", "b", ";">> >>),
      JoinLines(<< <<"Node", " ", "a", " ", "=", " ", "new", " ", "Node", "(", "1", ")", ";">>,
                   <<"Node", " ", "b", " ", "=", " ", "a", ";">>,
                   <<"a", " ", "=", " ", "null", ";">>,
                   <<"b", ".", "next", " ", "=", " ", "null", ";">> >>),
      <<"while", " ", "(", "cur", " ", "!", "=", " ", "null", ")", " ", "{">> }

\* A call of a state setter: with a value, or with the updater function of
\* handleStep.
SetTo(hook, value) == [set |-> hook, kind |-> "value", arg |-> value]

SetBy(hook, updater) == [set |-> hook, kind |-> updater, arg |-> 0]

TimerOff == [on |-> FALSE, len |-> 0]

TimerOn(len) == [on |-> TRUE, len |-> len]

\* initialState() as the component reads it.
InitialView ==
    LET r == initialState(<<>>)
    IN View(r.mem, r.ref)

\* Variant: the playback is left as it is.
parseAndShowKeepsPlaying(newCode) ==
    The({LET parsed == res.steps
             errs == res.errors
         IN << SetTo("steps", parsed),
               SetTo("errors", errs),
               SetTo("currentStep", IF Len(parsed) > 0 THEN Len(parsed) - 1 ELSE 0 - 1) >>
         : res \in {parseCode(newCode)}})

\* parseAndShow(newCode)
parseAndShow(newCode) ==
    The({LET parsed == res.steps
             errs == res.errors
         IN << SetTo("steps", parsed),
               SetTo("errors", errs),
               SetTo("currentStep", IF Len(parsed) > 0 THEN Len(parsed) - 1 ELSE 0 - 1),
               SetTo("isPlaying", FALSE) >>
         : res \in {parseCode(newCode)}})

\* One update applied to the hooks' state s.
ApplyUpdate(s, u) ==
    CASE u.kind = "value" -> [s EXCEPT ![u.set] = u.arg]
      [] u.kind = "step" -> [s EXCEPT !.currentStep = s.currentStep + 1]

RECURSIVE ApplyUpdates(_, _)
ApplyUpdates(s, updates) ==
    The({IF us = <<>> THEN t
         ELSE ApplyUpdates(ApplyUpdate(t, Head(us)), Tail(us)) :
             t \in {s}, us \in {updates}})

\* The hooks' state of the next render: the updates that wait, applied in
\* the order of their calls.
Hooks(a) ==
    ApplyUpdates([code |-> a.code, steps |-> a.steps, errors |-> a.errors,
                  currentStep |-> a.currentStep, isPlaying |-> a.isPlaying],
                 a.queue)

\* The auto-play effect after the render of hooks' state s that follows the
\* render a: it runs when isPlaying or steps.length changed, clears the
\* interval and, when playing, sets a new one.
TimerEffect(a, s) ==
    IF s.isPlaying # a.isPlaying \/ Len(s.steps) # Len(a.steps)
    THEN IF s.isPlaying THEN TimerOn(Len(s.steps)) ELSE TimerOff
    ELSE a.timer

\* What a render leaves, given the memory state it derived.
Committed(a, s, memState) ==
    [pc |-> "mounted",
     code |-> s.code, steps |-> s.steps, errors |-> s.errors,
     currentStep |-> s.currentStep, isPlaying |-> s.isPlaying,
     memState |-> memState,
     queue |-> <<>>,
     timer |-> TimerEffect(a, s),
     attended |-> a.attended]

\* Variant: the derived memory state is kept from the previous render while
\* currentStep stays the same.
RenderedMemoOnIndex(a) ==
    The({Committed(a, s,
             IF s.currentStep = a.currentStep THEN a.memState
             ELSE IF s.currentStep >= 0
                  THEN ReplayView(s.steps, s.currentStep)
                  ELSE InitialView) : s \in {Hooks(a)}})

\* A render of App: the hooks' state, and memState derived from it.
Rendered(a) ==
    The({Committed(a, s,
             IF s.currentStep >= 0
             THEN ReplayView(s.steps, s.currentStep)
             ELSE InitialView) : s \in {Hooks(a)}})

\* The first render and its effects: the hooks hold their initial values,
\* the mount effect has called parseAndShow(SAMPLE_CODE), the auto-play
\* effect has found isPlaying false.
InitApp ==
    /\ ReplayStart
    /\ frame = NoCall
    /\ app = [pc |-> "mounted",
              code |-> SAMPLE_CODE, steps |-> <<>>, errors |-> <<>>,
              currentStep |-> 0 - 1, isPlaying |-> FALSE,
              memState |-> InitialView,
              queue |-> parseAndShow(SAMPLE_CODE),
              timer |-> TimerOff,
              attended |-> TRUE]

\* A handler that called the setters of `updates`: they are rendered with
\* the updates that waited.  A handler that called none causes no render.
Handled(a, updates) ==
    IF updates = <<>> THEN a
    ELSE Rendered([a EXCEPT !.queue = @ \o updates])

\* handleCodeChange(newCode)
handleCodeChange ==
    \E newCode \in AppCodes :
        /\ app.attended
        /\ app' = Handled(app, <<SetTo("code", newCode)>> \o parseAndShow(newCode))
        /\ UNCHANGED <<mem, cur, steps, trail, frame>>

\* Variant: handleRun without its test of steps.length.
RunSettersUnguarded(a) ==
    <<SetTo("currentStep", 0 - 1), SetTo("isPlaying", TRUE)>>

\* The setters handleRun calls, with the steps of the last render.
RunSetters(a) ==
    IF Len(a.steps) = 0 THEN <<>>
    ELSE <<SetTo("currentStep", 0 - 1), SetTo("isPlaying", TRUE)>>

\* handleRun
handleRun ==
    /\ app.attended
    /\ app' = Handled(app, RunSetters(app))
    /\ UNCHANGED <<mem, cur, steps, trail, frame>>

\* handlePause
handlePause ==
    /\ app.attended
    /\ app' = Handled(app, <<SetTo("isPlaying", FALSE)>>)
    /\ UNCHANGED <<mem, cur, steps, trail, frame>>

\* The setters handleStep calls, with the steps and currentStep of the last
\* render.
StepSetters(a) ==
    IF a.currentStep < Len(a.steps) - 1
    THEN <<SetBy("currentStep", "step")>>
    ELSE <<>>

\* handleStep
handleStep ==
    /\ app.attended
    /\ app' = Handled(app, StepSetters(app))
    /\ UNCHANGED <<mem, cur, steps, trail, frame>>

\* Variant: handleReset leaves isPlaying as it is.
ResetSettersKeepPlaying == <<SetTo("currentStep", 0 - 1)>>

\* The setters handleReset calls.
ResetSetters == <<SetTo("isPlaying", FALSE), SetTo("currentStep", 0 - 1)>>

\* handleReset
handleReset ==
    /\ app.attended
    /\ app' = Handled(app, ResetSetters)
    /\ UNCHANGED <<mem, cur, steps, trail, frame>>

\* Variant: the updater stops one tick early.
TickStopsEarly(prev, len) == prev + 2 >= len

\* Variant: the updater stops one tick late.
TickStopsLate(prev, len) == prev + 1 > len

\* next >= steps.length in the updater of the interval callback, len being
\* the steps.length the callback closed over.
TickStops(prev, len) == prev + 1 >= len

\* The interval callback.  No update waits, so the updater runs at once, on
\* the state of the last render: it either calls setIsPlaying(false) and
\* clearInterval and keeps the index, or gives the next index.
IntervalTick ==
    /\ app.timer.on
    /\ app.queue = <<>>
    /\ IF TickStops(app.currentStep, app.timer.len)
       THEN app' = [app EXCEPT !.queue = <<SetTo("isPlaying", FALSE)>>,
                               !.timer = TimerOff]
       ELSE app' = [app EXCEPT !.queue = <<SetTo("currentStep", app.currentStep + 1)>>]
    /\ UNCHANGED <<mem, cur, steps, trail, frame>>

\* The render of the updates that wait, and its effects.
Render ==
    /\ app.queue # <<>>
    /\ app' = Rendered(app)
    /\ UNCHANGED <<mem, cur, steps, trail, frame>>

NextApp ==
    \/ handleCodeChange
    \/ handleRun
    \/ handlePause
    \/ handleStep
    \/ handleReset
    \/ IntervalTick
    \/ Render

SpecApp == InitApp /\ [][NextApp]_vars

\* Run pressed and the application then left alone.  The Run button exists
\* only in a render with isPlaying false (Controls); the handler is handleRun,
\* on a step list that is not empty.
RunAndLeave ==
    /\ app.attended
    /\ ~app.isPlaying
    /\ Len(app.steps) > 0
    /\ app' = [Handled(app, RunSetters(app)) EXCEPT !.attended = FALSE]
    /\ UNCHANGED <<mem, cur, steps, trail, frame>>

NextPlay ==
    \/ handleCodeChange
    \/ handleRun
    \/ handlePause
    \/ handleStep
    \/ handleReset
    \/ IntervalTick
    \/ Render
    \/ RunAndLeave

\* An interval that is set keeps firing and an update that waits is rendered.
SpecPlay ==
    /\ InitApp
    /\ [][NextPlay]_vars
    /\ WF_vars(IntervalTick)
    /\ WF_vars(Render)

\* ------------------------------------------------------------------- C30
\* C30: the memory state the App shows is replaySteps(steps, currentStep) of
\* the steps and the index of the same render when currentStep >= 0, and the
\* empty initial state when currentStep = -1, whatever an earlier render
\* showed.
C30_MemStateIsReplayOfRender ==
    /\ app.currentStep >= 0 =>
           app.memState = ReplayView(app.steps, app.currentStep)
    /\ app.currentStep = 0 - 1 => app.memState = EmptyView
    /\ app.currentStep >= 0 - 1

\* A render of an edited text that shows a step before the last one, with
\* nothing waiting.
C30_Witness ==
    /\ app.code \in AppCodes
    /\ app.queue = <<>>
    /\ app.currentStep >= 0
    /\ app.currentStep < Len(app.steps) - 1
    /\ app.memState # EmptyView

\* ------------------------------------------------------------------- C31
\* What parseAndShow makes of a text: the render shows the steps and the
\* errors parseCode returns for the text in the editor, the index of the
\* last step, or -1 when there is none, and no playback.
ShowsWholeText(a) ==
    The({/\ a.steps = res.steps
         /\ a.errors = res.errors
         /\ a.currentStep = (IF Len(res.steps) > 0 THEN Len(res.steps) - 1 ELSE 0 - 1)
         /\ a.isPlaying = FALSE
         : res \in {parseCode(a.code)}})

\* The render of the updates of the mount effect.
MountRender ==
    /\ Render
    /\ app.code = SAMPLE_CODE
    /\ app.steps = <<>>

\* C31: the render that follows a code change, and the one that follows the
\* mount, shows steps and errors as parseCode returns them for the new text,
\* currentStep at the last step (-1 when there is none) and isPlaying false,
\* whatever the playback state was before.
C31_CodeChangeShowsAllSteps ==
    [][(handleCodeChange \/ MountRender) => ShowsWholeText(app')]_vars

\* A text with a step and an error shown whole while the timer of an
\* earlier playback is off.
C31_Witness ==
    /\ app.code \in AppCodes
    /\ app.queue = <<>>
    /\ Len(app.steps) >= 1
    /\ Len(app.errors) >= 1
    /\ app.currentStep = Len(app.steps) - 1
    /\ ~app.isPlaying
    /\ ~app.timer.on

\* ------------------------------------------------------------------- C32
\* The render of the update of a tick: any render but the one of the mount.
TickRender ==
    /\ Render
    /\ ~MountRender

\* C32: a tick comes only while isPlaying is true.  When currentStep + 1 <
\* len(steps) the render it causes shows currentStep + 1 and the playback
\* goes on; otherwise the render shows the same currentStep and isPlaying
\* false, and the interval is cleared by the tick itself, so that no tick
\* follows; after the render of a tick the interval is set exactly when
\* isPlaying is true.
C32_TickAdvancesOrStops ==
    [][/\ IntervalTick =>
              /\ app.isPlaying
              /\ IF app.currentStep + 1 < Len(app.steps)
                 THEN /\ Hooks(app').currentStep = app.currentStep + 1
                      /\ Hooks(app').isPlaying
                      /\ app'.timer.on
                 ELSE /\ Hooks(app').currentStep = app.currentStep
                      /\ ~Hooks(app').isPlaying
                      /\ ~app'.timer.on
       /\ TickRender =>
              /\ app'.currentStep = Hooks(app).currentStep
              /\ app'.isPlaying = Hooks(app).isPlaying
              /\ app'.timer.on = app'.isPlaying
      ]_vars

\* A tick has come at the last step: the interval is cleared and the update
\* that turns isPlaying off waits for its render.
C32_Witness ==
    /\ app.isPlaying
    /\ app.currentStep = Len(app.steps) - 1
    /\ app.queue = <<SetTo("isPlaying", FALSE)>>
    /\ ~app.timer.on

\* ------------------------------------------------------------------- C33
\* C33: a call of handleRun with an empty step list changes nothing, neither
\* currentStep nor isPlaying nor anything else; with a step list that is not
\* empty the render it causes shows currentStep -1 and isPlaying true.
C33_RunRestartsOrNothing ==
    [][handleRun =>
           IF Len(app.steps) = 0
           THEN app' = app
           ELSE /\ app'.currentStep = 0 - 1
                /\ app'.isPlaying = TRUE
                /\ app'.memState = EmptyView
      ]_vars

\* A playback restarted from a later index of an edited text: the index is
\* -1 and the interval is set for the whole list.
C33_Witness ==
    /\ app.code \in AppCodes
    /\ app.isPlaying
    /\ app.currentStep = 0 - 1
    /\ app.queue = <<>>
    /\ app.timer = TimerOn(Len(app.steps))
    /\ Len(app.steps) >= 2

\* ------------------------------------------------------------------- C34
\* C34: the render a call of handleReset causes shows currentStep -1,
\* isPlaying false and the empty initial memory state, whatever the playback
\* state was, and no interval is left; code, steps and errors are what they
\* were, or what the updates that waited before the call make them.
C34_ResetShowsInitialState ==
    [][handleReset =>
           /\ app'.currentStep = 0 - 1
           /\ app'.isPlaying = FALSE
           /\ app'.memState = EmptyView
           /\ ~app'.timer.on
           /\ app'.code = Hooks(app).code
           /\ app'.steps = Hooks(app).steps
           /\ app'.errors = Hooks(app).errors
      ]_vars

\* A reset text with steps and an error: nothing is applied, nothing plays,
\* the list is still there.
C34_Witness ==
    /\ app.code \in AppCodes
    /\ app.currentStep = 0 - 1
    /\ ~app.isPlaying
    /\ app.queue = <<>>
    /\ Len(app.steps) >= 1
    /\ Len(app.errors) >= 1
    /\ app.memState = EmptyView

C36_PlaybackRunsToTheEnd ==
    /\ [][~app'.attended =>
              IF app.attended
              THEN /\ app'.currentStep = 0 - 1
                   /\ app'.isPlaying
                   /\ app'.timer = TimerOn(Len(app'.steps))
              ELSE /\ app'.steps = app.steps
                   /\ \/ app'.currentStep = app.currentStep
                      \/ app'.currentStep = app.currentStep + 1
         ]_vars
    /\ ~app.attended ~> /\ ~app.isPlaying
                        /\ app.currentStep = Len(app.steps) - 1
                        /\ app.queue = <<>>
                        /\ ~app.timer.on

\* The three-step text played to its end with nobody watching.
C36_Witness ==
    /\ ~app.attended
    /\ ~app.isPlaying
    /\ Len(app.steps) >= 3
    /\ app.currentStep = Len(app.steps) - 1
    /\ app.queue = <<>>
    /\ ~app.timer.on

\* ------------------------------------------------------------------- C37
\* C37: an index at or past the last step gives what the last index gives:
\* replaySteps(steps, k) reads as replaySteps(steps, len(steps) - 1) for every
\* k >= len(steps) - 1, which for an empty list is the empty snapshot at every
\* index; the loop applies the steps of the list and nothing else.
C37_IndexPastEndClamped ==
    /\ \A k \in (Len(steps) - 1)..(Len(steps) + MaxSlack) :
           /\ ReplayView(steps, k) = ReplayView(steps, Len(steps) - 1)
           /\ ReplayView(steps, k) = View(mem, cur)
    /\ steps = <<>> => \A k \in ReplayIndexes : ReplayView(steps, k) = EmptyView

\* A list whose last step changed a node: one more iteration of any kind
\* would show, in lastModified at least.
C37_Witness ==
    /\ Len(steps) = MaxSteps
    /\ steps[Len(steps)].type \in {SET_NEXT, SET_NULL}
    /\ mem[cur].lastModified # NULL
    /\ Len(HeapOf(mem, cur)) >= 2

\* ------------------------------------------------------------------- C38
\* What LinkedListView draws from a snapshot:
\* headAddr ? buildChain(heap, headAddr) : [].
LinkedListChain(state) ==
    LET headAddr == findHeadAddress(state)
    IN IF Truthy(headAddr) THEN buildChain(state.heap, headAddr) ELSE <<>>

\* The snapshot a replay has reached, as findHeadAddress reads it.
ReplayState == [stack |-> StackOf(mem, cur), heap |-> HeapOf(mem, cur)]

\* C38: in every state a replay reaches, when findHeadAddress gives a head
\* the chain built from it is not empty and starts with that head, and the
\* chain LinkedListView draws is empty exactly when no stack slot holds an
\* address.
C38_HeadStartsChain ==
    LET headAddr == findHeadAddress(ReplayState)
        chain == buildChain(ReplayState.heap, headAddr)
    IN /\ headAddr # NULL => (chain # <<>> /\ chain[1] = headAddr)
       /\ (LinkedListChain(ReplayState) = <<>>) <=>
              (AddressSlots(ReplayState) = {})

\* ============================================== a text typed line by line
\* The names tried in the lines: an ordinary one, the word null, and the
\* name of an inherited accessor.
NullNames == {"a", "null", "__proto__"}

CreateLine(x) ==
    <<"Node", " ", x, " ", "=", " ", "new", " ", "Node", "(", "1", ")", ";">>

ReassignLine(x, y) == <<x, " ", "=", " ", y, ";">>

AssignLine(x, y) == <<"Node", " ", x, " ", "=", " ", y, ";">>

\* The text so far and what parseCode made of it; `steps` is the list
\* parsed, `mem` and `cur` the replay of all of it.
InitNull ==
    /\ ReplayStart
    /\ app = NotMounted
    /\ frame = [pc |-> "text", code |-> <<>>, errors |-> <<>>]

\* A line is added to the text: parseCode on the whole text, replaySteps on
\* all its steps.
TypeLine(line) ==
    /\ \E code \in {IF frame.code = <<>> THEN line
                    ELSE frame.code \o <<NEWLINE>> \o line} :
         \E res \in {parseCode(code)} :
           \E r \in {replaySteps(<<>>, res.steps, Len(res.steps) - 1)} :
               /\ frame' = [frame EXCEPT !.code = code, !.errors = res.errors]
               /\ steps' = res.steps
               /\ mem' = r.mem
               /\ cur' = r.ref
               /\ trail' = <<[ref |-> r.ref, view |-> View(r.mem, r.ref)]>>
    /\ UNCHANGED app

\* One more line of each statement shape that binds a variable, as long as
\* the text is not at its longest.
TypeCreate ==
    \E x \in NullNames :
        /\ Len(steps) < MaxSteps
        /\ TypeLine(CreateLine(x))

TypeReassign ==
    \E x \in NullNames, y \in NullNames :
        /\ Len(steps) < MaxSteps
        /\ TypeLine(ReassignLine(x, y))

TypeAssign ==
    \E x \in NullNames, y \in NullNames :
        /\ Len(steps) < MaxSteps
        /\ TypeLine(AssignLine(x, y))

NextNull ==
    \/ TypeCreate
    \/ TypeReassign
    \/ TypeAssign

SpecNull == InitNull /\ [][NextNull]_vars

\* Whether a value is the address of a node.
IsAddress(v) == v \notin {NULL, UNDEFINED, OBJECT_PROTOTYPE}

\* ------------------------------------------------------------------- C39
\* C39: a line `<name> = null;` or `Node <name> = null;` added to a text
\* raises no error and is parsed as an AssignVar step of <name> with source
\* variable null; when the variable named null is not bound to an address,
\* the replay of the text has a stack slot <name> that holds null.
C39_NullLineBindsNull ==
    [][\A x \in NullNames :
          (\/ TypeLine(ReassignLine(x, "null"))
           \/ TypeLine(AssignLine(x, "null"))) =>
              /\ frame'.errors = frame.errors
              /\ Len(steps') = Len(steps) + 1
              /\ steps'[Len(steps')].type = ASSIGN_VAR
              /\ steps'[Len(steps')].varName = x
              /\ steps'[Len(steps')].sourceVar = "null"
              /\ ~IsAddress(GetProp(StackOf(mem, cur), "null")) =>
                     /\ HasOwn(StackOf(mem', cur'), x)
                     /\ GetProp(StackOf(mem', cur'), x) = NULL
      ]_vars

\* ------------------------------------------------------------------- C40
\* The last CreateNode step that names the variable v.
LastCreate(v) ==
    CHOOSE i \in CreateSteps :
        /\ steps[i].varName = v
        /\ \A j \in CreateSteps : steps[j].varName = v => j <= i

\* C40: after any replay addressMap has one entry for each variable some
\* CreateNode step named, holding the address the last such step minted, and
\* no other entry, whatever AssignVar, SetNext and SetNull steps came in
\* between; every value of addressMap is a key of the heap.
C40_AddressMapTracksCreates ==
    LET am == AddressMapOf(mem, cur)
    IN /\ {am[i].k : i \in 1..Len(am)} = {steps[i].varName : i \in CreateSteps}
       /\ \A i \in 1..Len(am) :
              /\ am[i].k \in {steps[j].varName : j \in CreateSteps} =>
                     am[i].v = makeAddress(CreateRank(LastCreate(am[i].k)))
              /\ am[i].v \in HeapKeys(mem, cur)

====
